---- MODULE Spec2Model ----
(***************************************************************************)
(* tokkit, token manager: the refresh scheduler, the token updater, the   *)
(* per-token rows and result slots, and the reader handle.                 *)
(*                                                                         *)
(* Sources: src/src/token_manager/internals/{mod,request_scheduler,        *)
(* token_updater}.rs and src/src/token_manager/mod.rs.                     *)
(*                                                                         *)
(* Beside the manager: the introspection clients (src/src/client.rs,       *)
(* src/src/async_client.rs), the calls of the token service                *)
(* (token_updater.rs, token_provider/mod.rs), the formatting of an         *)
(* AccessToken (src/src/lib.rs) and the group builder.                     *)
(*                                                                         *)
(* Time is in milliseconds (EpochMillis).  The f32 products                *)
(* (expires_in_ms as f32 * threshold) as u64 are modelled as the exact     *)
(* truncated product with the threshold given in percent.  The clock       *)
(* never goes back.  Where the range of u64 matters (a response with a     *)
(* wide expires_in) the word has WordBits bits.                            *)
(***************************************************************************)
EXTENDS Integers, Sequences, FiniteSets, TLC

\* ------------------------------------------------------------------ bounds

\* The clock advances at most MaxTicks times the smallest step.
MaxTicks == 4

\* The provider is called at most MaxCalls times in one run.
MaxCalls == 3

\* The number of ForceRefresh commands readers enqueue in one run.
MaxForce == 1

\* The requests one get_from_remote, and the provider calls one
\* call_token_service, makes before its backoff gives up.
MaxAttempts == 3

\* The number of handles alive at a time (the AccessTokenSource and clones).
MaxHandles == 2

\* The largest budget (ms) handed to introspect_with_retry.
MaxBudget == 30

\* The length of the longest secret of an AccessToken.
MaxSecretLen == 2

\* The width in bits of the machine word that stands for u64 where the range
\* of EpochMillis matters.
WordBits == 16

\* ------------------------------------------------------- program constants

\* max_cycle_dur_ms handed to RefreshScheduler::new by start().
max_cycle_dur_ms == 500

\* min_notification_interval_ms handed to RefreshScheduler::new by start().
min_notification_interval_ms == 10000

\* "self.clock.now() + 50": the re-check delay while a refresh is pending.
PendingRecheckMs == 50

\* update_token_err: the delays until the next attempt.
ErrDelayUninitialized == 100
ErrDelayOk == 1000
ErrDelayError == 5000

\* ------------------------------------------------------------ configuration

\* An identifier no managed token carries (a reader may still pass it).
UnknownId == "Z"

\* The steps (ms) by which the clock advances, and the horizon of a run.
TickSteps == {250, 750}

MinTickStep == CHOOSE s \in TickSteps : \A t \in TickSteps : s <= t

Horizon == MaxTicks * MinTickStep

\* The token ids of the groups handed to start, in order: without and with
\* a repeated id.
GroupInputs == {<<"A">>, <<"A", "B">>, <<"A", "A">>, <<"B", "A", "B">>}

\* The timeouts (ms) handed to start_and_wait.
WaitTimeouts == {0, 500}

\* ManagedTokenGroupBuilder::default: the thresholds, in percent.
DefaultThresholds == <<75, 85>>

\* The provider of the unit tests answers expires_in = 1 s.
DefaultProvider == {1000}

\* Thresholds (percent) handed to the group builder, among them values
\* build() rejects, and the pairs of them.
ThresholdGrid == {0, 50, 75, 85, 100, 120}

ThresholdPairs == ThresholdGrid \X ThresholdGrid

\* Providers answering other durations: none at all, 1 ms, 1 s.
WideProviders == {{0}, {1}, {1000}}

\* Mutant of build: the upper limit of the thresholds is not checked.
BuildAccepts_no_upper_limit(refresh_pct, warning_pct) ==
    /\ ~(refresh_pct <= 0)
    /\ ~(warning_pct <= 0)

\* ManagedTokenGroupBuilder::build: both thresholds must be of (0;1].
BuildAccepts(refresh_pct, warning_pct) ==
    /\ ~(refresh_pct <= 0 \/ refresh_pct > 100)
    /\ ~(warning_pct <= 0 \/ warning_pct > 100)

\* ------------------------------------------------------------------ state

VARIABLES
    managed_tokens, \* the token ids of the group handed to start(), in order
    clock,        \* Clock::now()
    thresholds,   \* the group's <<refresh_threshold, warning_threshold>> (percent)
    provider,     \* the expires_in values (ms) the group's provider answers with
    rows,         \* rows[idx]: the TokenRow
    tokens,       \* tokens[id]: the result slot of the token map
    channel,      \* the mpsc channel of ManagerCommands
    updater,      \* the updater thread: pc, and the command it executes
    sched,        \* the scheduler thread: pc and the locals of its loop
    calls,        \* the provider's call counter (names the token it issues)
    forced,       \* number of ForceRefresh commands readers have enqueued
    last,         \* what the updater did with the last command it handled
    handles,      \* the number of live handles (AccessTokenSource and clones)
    is_running,   \* Inner::is_running
    starter,      \* the caller of start / start_and_wait: position and result
    reader,       \* the readers: slot locks held; how the last refresh() ended
                  \* and whether its send succeeded
    intro,        \* a call of TokenInfoServiceClient::introspect
    budgeted,     \* a call of AsyncTokenInfoService::introspect_with_retry
    service,      \* a call of call_token_service: the provider calls of one refresh
    formatted,    \* two AccessTokens and what formatting them wrote
    builder,      \* a ManagedTokenGroupBuilder, and what its caller asked for
    response      \* a provider response with a wide expires_in, and the row it sets

\* The variables of the token manager.
manager_vars ==
    <<managed_tokens, clock, thresholds, provider, rows, tokens, channel, updater, sched, calls, forced, last,
      handles, is_running, starter, reader>>

\* The variables of the other components, beside the blocking introspection.
other_vars == <<budgeted, service, formatted, builder, response>>

vars == <<manager_vars, intro, other_vars>>

\* --------------------------------------------------------------- helpers

NumRows == Len(managed_tokens)

RowIdx == 0 .. (NumRows - 1)

TokenIds == {managed_tokens[k] : k \in 1 .. NumRows}

\* create_rows: row idx belongs to the idx-th managed token.
RowTokenId(idx) == managed_tokens[idx + 1]

\* create_tokens: the index stored in the token map beside the slot.
TokenIndex(id) == CHOOSE idx \in RowIdx : managed_tokens[idx + 1] = id

Min(a, b) == IF a <= b THEN a ELSE b

\* TokenState::is_refresh_pending
is_refresh_pending(s) == s \in {"Initializing", "OkPending", "ErrorPending"}

\* TokenState::is_uninitialized
is_uninitialized(s) == s \in {"Uninitialized", "Initializing"}

\* diff_millis
diff_millis(start_millis, end_millis) ==
    IF start_millis > end_millis THEN 0 ELSE end_millis - start_millis

\* minus_millis
minus_millis(from, subtract) ==
    IF subtract > from THEN 0 ELSE from - subtract

\* (expires_in_ms as f32 * threshold) as u64, threshold in percent
Scaled(expires_in_ms, pct) == (expires_in_ms * pct) \div 100

TokenStates ==
    {"Uninitialized", "Initializing", "Ok", "OkPending", "Error", "ErrorPending"}

\* create_rows(groups, now); an Option is <<>> (None) or <<v>> (Some(v)).
create_rows(now) ==
    [idx \in RowIdx |->
        [token_state          |-> "Uninitialized",
         last_touched         |-> now,
         refresh_at           |-> now,
         warn_at              |-> now,
         expires_at           |-> now,
         scheduled_for        |-> now,
         last_notification_at |-> <<>>]]

\* create_tokens(groups)
create_tokens ==
    [id \in TokenIds |-> [kind |-> "NotInitialized", val |-> id]]

\* Mutant of update_token_err: the slot is reset to its initial kind.
SlotErr_as_not_initialized(err) == [kind |-> "NotInitialized", val |-> err]

\* A slot holding a token, a slot holding the provider's error.
SlotOk(tok) == [kind |-> "Ok", val |-> tok]
SlotErr(err) == [kind |-> "AccessTokenProvider", val |-> err]

\* The provider's errors, and those call_token_service retries.
ProviderErrors ==
    {"Server", "BadAuthorizationRequest"}

\* ----------------------------------------------------------- the updater

\* Mutant of refresh_token: the gate of the older client snapshot, which
\* drops a command whose timestamp equals last_touched.
refresh_gate_strict(row, command_timestamp) ==
    row.last_touched < command_timestamp \/ is_uninitialized(row.token_state)

\* Mutant of refresh_token: the gate without the clause for rows that were
\* never initialized.
refresh_gate_initialized_only(row, command_timestamp) ==
    row.last_touched <= command_timestamp

\* Mutant of refresh_token: a command for a row whose refresh is pending is
\* dropped.
refresh_gate_unless_pending(row, command_timestamp) ==
    /\ ~(row.token_state \in {"Initializing", "OkPending", "ErrorPending"})
    /\ (row.last_touched <= command_timestamp
          \/ row.token_state \in {"Uninitialized", "Initializing"})

\* refresh_token: the gate in front of the provider call.
refresh_gate(row, command_timestamp) ==
    row.last_touched <= command_timestamp \/ is_uninitialized(row.token_state)

\* Mutant of update_token_ok: the next refresh is scheduled at the expiry.
update_token_ok_late(expires_in_ms, row, now) ==
    [row EXCEPT
        !.last_touched  = now,
        !.expires_at    = now + expires_in_ms,
        !.refresh_at    = now + Scaled(expires_in_ms, thresholds[1]),
        !.scheduled_for = now + expires_in_ms,
        !.token_state   = "Ok",
        !.warn_at       = now + Scaled(expires_in_ms, thresholds[2])]

\* update_token_ok
update_token_ok(expires_in_ms, row, now) ==
    [row EXCEPT
        !.last_touched  = now,
        !.expires_at    = now + expires_in_ms,
        !.refresh_at    = now + Scaled(expires_in_ms, thresholds[1]),
        !.scheduled_for = now + Scaled(expires_in_ms, thresholds[1]),
        !.token_state   = "Ok",
        !.warn_at       = now + Scaled(expires_in_ms, thresholds[2])]

\* Mutant of update_token_err: one delay for every state.
err_delay_flat(token_state) == ErrDelayOk

\* update_token_err: the delay chosen from the state before the update.
err_delay(token_state) ==
    CASE token_state \in {"Uninitialized", "Initializing"} -> ErrDelayUninitialized
      [] token_state \in {"Ok", "OkPending"}               -> ErrDelayOk
      [] token_state \in {"Error", "ErrorPending"}         -> ErrDelayError

\* Mutant of update_token_err: the row keeps the state it had.
update_token_err_state_kept(row, now) ==
    [row EXCEPT
        !.last_touched  = now,
        !.expires_at    = now,
        !.refresh_at    = now,
        !.warn_at       = now,
        !.scheduled_for = now + err_delay(row.token_state)]

\* update_token_err
update_token_err(row, now) ==
    [row EXCEPT
        !.last_touched  = now,
        !.expires_at    = now,
        !.refresh_at    = now,
        !.warn_at       = now,
        !.scheduled_for = now + err_delay(row.token_state),
        !.token_state   = "Error"]

\* Mutant of handle_error: every error is applied, whatever the row's state.
handle_error_applies_always(row, now) == TRUE

\* handle_error: TRUE when the error is applied to row and slot.
handle_error_applies(row, now) ==
    CASE row.token_state \in {"Uninitialized", "Initializing"} -> TRUE
      [] row.token_state \in {"Ok", "OkPending"}               -> row.expires_at <= now
      [] row.token_state \in {"Error", "ErrorPending"}         -> TRUE

\* on_command: the row a command addresses; -1 when tokens.get() finds none.
CommandRow(cmd) ==
    IF cmd.kind = "ForceRefresh"
    THEN IF cmd.target \in TokenIds THEN TokenIndex(cmd.target) ELSE -1
    ELSE cmd.target

\* A reader holds the slot's lock while it clones the slot's value.
SlotLockedByReader(id) == id \in reader.locked

\* The row lock is held by the updater for the whole of refresh_token.
RowLockedByUpdater(idx) == updater.pc = "calling" /\ updater.idx = idx

\* Mutant of on_command: every outcome is written to the first slot.
CommandSlot_first(cmd) == managed_tokens[1]

\* on_command: the slot a command's outcome is written to, looked up under
\* the row's token_id (scheduler commands) or the command's (ForceRefresh).
CommandSlot(cmd) ==
    IF cmd.kind = "ForceRefresh" THEN cmd.target ELSE RowTokenId(cmd.target)

\* call_token_service answering Ok: the token the provider issues on its
\* serial-th call, for the scopes of the row it is called with.
AccessTokenFor(idx, serial) == [issued_for |-> RowTokenId(idx), serial |-> serial]

\* Every Sender is dropped: the handles', the scheduler thread's and the one
\* start_and_wait holds while it waits.
SendersDropped ==
    /\ handles = 0
    /\ sched.pc = "exited"
    /\ starter.pc = "done"

Idle == [pc |-> "recv", kind |-> "none", idx |-> -1, slot |-> "none", ts |-> 0]

\* next_command / on_command up to the gate of refresh_token.
UpdaterReceive ==
    /\ updater.pc = "recv"
    /\ IF ~is_running \/ (channel = <<>> /\ SendersDropped)
       THEN \* the loop condition fails, or recv() fails on the closed channel
            /\ updater' = [Idle EXCEPT !.pc = "exited"]
            /\ UNCHANGED <<channel, last>>
       ELSE /\ channel # <<>>
            /\ calls < MaxCalls
            /\ LET cmd == Head(channel)
                   idx == CommandRow(cmd)
               IN /\ channel' = Tail(channel)
                  /\ IF idx = -1
                     THEN \* self.tokens.get(&token_id).unwrap() panics
                          /\ updater' = [Idle EXCEPT !.pc = "panicked"]
                          /\ last' = [op |-> "panic", idx |-> -1, prev |-> "none", arg |-> 0]
                     ELSE IF refresh_gate(rows[idx], cmd.ts)
                          THEN /\ updater' = [pc |-> "calling", kind |-> cmd.kind, idx |-> idx,
                                               slot |-> CommandSlot(cmd), ts |-> cmd.ts]
                               /\ last' = [op |-> "call", idx |-> idx,
                                            prev |-> rows[idx].token_state, arg |-> 0]
                          ELSE /\ updater' = Idle
                               /\ last' = [op |-> "skip", idx |-> idx,
                                            prev |-> rows[idx].token_state, arg |-> 0]
    /\ UNCHANGED <<managed_tokens, clock, thresholds, provider, rows, tokens, calls, forced, sched, handles, is_running, starter, reader, intro, other_vars>>

\* call_token_service answered Ok(rsp): update_token_ok.
UpdaterSuccess ==
    /\ updater.pc = "calling"
    /\ \E expires_in_ms \in provider :
         LET idx == updater.idx IN
         /\ ~SlotLockedByReader(updater.slot)
         /\ tokens' = [tokens EXCEPT ![updater.slot] = SlotOk(AccessTokenFor(idx, calls))]
         /\ rows' = [rows EXCEPT ![idx] = update_token_ok(expires_in_ms, rows[idx], clock)]
         /\ last' = [op |-> "ok", idx |-> idx,
                      prev |-> rows[idx].token_state, arg |-> expires_in_ms]
    /\ calls' = calls + 1
    /\ updater' = Idle
    /\ UNCHANGED <<managed_tokens, clock, thresholds, provider, channel, forced, sched, handles, is_running, starter, reader, intro, other_vars>>

\* call_token_service answered Err(err): handle_error.
UpdaterFailure ==
    /\ updater.pc = "calling"
    /\ \E err \in ProviderErrors :
         LET idx == updater.idx IN
         IF handle_error_applies(rows[idx], clock)
         THEN /\ ~SlotLockedByReader(updater.slot)
              /\ tokens' = [tokens EXCEPT ![updater.slot] = SlotErr(err)]
              /\ rows' = [rows EXCEPT ![idx] = update_token_err(rows[idx], clock)]
              /\ last' = [op |-> "err", idx |-> idx,
                           prev |-> rows[idx].token_state, arg |-> 0]
         ELSE /\ UNCHANGED <<tokens, rows>>
              /\ last' = [op |-> "kept", idx |-> idx,
                           prev |-> rows[idx].token_state, arg |-> 0]
    /\ calls' = calls + 1
    /\ updater' = Idle
    /\ UNCHANGED <<managed_tokens, clock, thresholds, provider, channel, forced, sched, handles, is_running, starter, reader, intro, other_vars>>

\* The unit tests of the updater (refresh_tests): the test hands
\* ScheduledRefresh(idx, clock.now()) to on_command, one command at a time.
OnCommandScheduledRefresh ==
    /\ updater.pc = "recv"
    /\ channel = <<>>
    /\ calls < MaxCalls
    /\ \E idx \in RowIdx :
         channel' = <<[kind |-> "ScheduledRefresh", target |-> idx, ts |-> clock]>>
    /\ UNCHANGED <<managed_tokens, clock, thresholds, provider, rows, tokens, updater, sched, calls, forced, last, handles, is_running, starter, reader, intro, other_vars>>

\* The timestamps the unit tests of the updater put into a command beside
\* clock.now(): 0 and 50 (refreshes_initilalizing_token sends 50 at clock 100).
CommandTimestamps == {0, 50}

\* The kinds of ManagerCommand.
CommandKinds == {"ScheduledRefresh", "ForceRefresh", "RefreshOnError"}

\* ManagerCommand: a ForceRefresh names the token id, the others the row.
ManagerCommand(kind, idx, ts) ==
    [kind |-> kind,
     target |-> IF kind = "ForceRefresh" THEN RowTokenId(idx) ELSE idx,
     ts |-> ts]

\* The unit tests of the updater (refresh_tests): the test hands a command of
\* any kind to on_command, with a timestamp of its choice.
OnCommandAt ==
    /\ updater.pc = "recv"
    /\ channel = <<>>
    /\ calls < MaxCalls
    /\ \E kind \in CommandKinds, idx \in RowIdx, ts \in CommandTimestamps \cup {clock} :
         channel' = <<ManagerCommand(kind, idx, ts)>>
    /\ UNCHANGED <<managed_tokens, clock, thresholds, provider, rows, tokens, updater, sched, calls, forced, last, handles, is_running, starter, reader, intro, other_vars>>

\* --------------------------------------------------------- the scheduler

\* Mutant of do_a_scheduling_round: a due row in OkPending is sent a
\* command again.
SchedulerDecision_resend_ok(token_state) ==
    CASE token_state = "Uninitialized" -> <<"ScheduledRefresh", "Initializing">>
      [] token_state = "Initializing"  -> <<"none", "Initializing">>
      [] token_state = "Ok"            -> <<"ScheduledRefresh", "OkPending">>
      [] token_state = "OkPending"     -> <<"ScheduledRefresh", "OkPending">>
      [] token_state = "Error"         -> <<"RefreshOnError", "ErrorPending">>
      [] token_state = "ErrorPending"  -> <<"none", "ErrorPending">>

\* Mutant of do_a_scheduling_round: a due row in Initializing is sent a
\* command again.
SchedulerDecision_resend_init(token_state) ==
    CASE token_state = "Uninitialized" -> <<"ScheduledRefresh", "Initializing">>
      [] token_state = "Initializing"  -> <<"ScheduledRefresh", "Initializing">>
      [] token_state = "Ok"            -> <<"ScheduledRefresh", "OkPending">>
      [] token_state = "OkPending"     -> <<"none", "OkPending">>
      [] token_state = "Error"         -> <<"RefreshOnError", "ErrorPending">>
      [] token_state = "ErrorPending"  -> <<"none", "ErrorPending">>

\* do_a_scheduling_round, the match on the state of a due row:
\* <<command sent, new state>>.
SchedulerDecision(token_state) ==
    CASE token_state = "Uninitialized" -> <<"ScheduledRefresh", "Initializing">>
      [] token_state = "Initializing"  -> <<"none", "Initializing">>
      [] token_state = "Ok"            -> <<"ScheduledRefresh", "OkPending">>
      [] token_state = "OkPending"     -> <<"none", "OkPending">>
      [] token_state = "Error"         -> <<"RefreshOnError", "ErrorPending">>
      [] token_state = "ErrorPending"  -> <<"none", "ErrorPending">>

\* Mutant of check_notifications: the time since the last warning is not
\* looked at.
Notifies_whenever(row, now) ==
    CASE row.token_state \in {"Error", "ErrorPending"} -> TRUE
      [] row.token_state \in {"Ok", "OkPending"} ->
             row.expires_at <= now \/ row.warn_at <= now
      [] OTHER -> FALSE

\* check_notifications: TRUE when a warning is logged for the row.
Notifies(row, now) ==
    /\ IF row.last_notification_at = <<>>
       THEN TRUE
       ELSE minus_millis(now, row.last_notification_at[1]) >= min_notification_interval_ms
    /\ CASE row.token_state \in {"Error", "ErrorPending"} -> TRUE
         [] row.token_state \in {"Ok", "OkPending"} ->
                row.expires_at <= now \/ row.warn_at <= now
         [] OTHER -> FALSE

\* check_notifications
check_notifications(row, now) ==
    IF Notifies(row, now) THEN [row EXCEPT !.last_notification_at = <<now>>] ELSE row

\* u64::max_value(), the initial next_at of a round; written -1 (the all-ones
\* word): it is only ever compared for equality and never used in arithmetic.
U64Max == -1

MinNextAt(next_at, t) ==
    IF next_at = U64Max THEN t ELSE Min(next_at, t)

Sleeping(wake_at) ==
    [pc |-> "sleep", idx |-> 0, start |-> 0, next_at |-> U64Max,
     pending |-> FALSE, wake_at |-> wake_at]

\* The receiver is dropped when the updater thread has ended.
SendFails == updater.pc \in {"panicked", "exited"}

\* run_scheduler_loop: the sleep is over, a round starts.
SchedulerStartRound ==
    /\ sched.pc = "sleep"
    /\ sched.wake_at <= clock
    /\ sched' = IF is_running
                THEN [pc |-> "round", idx |-> 0, start |-> clock, next_at |-> U64Max,
                      pending |-> FALSE, wake_at |-> 0]
                ELSE [Sleeping(0) EXCEPT !.pc = "exited"]
    /\ UNCHANGED <<managed_tokens, clock, thresholds, provider, rows, tokens, channel, updater, calls, forced, last, handles, is_running, starter, reader, intro, other_vars>>

\* do_a_scheduling_round: one iteration of the loop over the rows.
SchedulerRow ==
    /\ sched.pc = "round"
    /\ sched.idx < NumRows
    /\ ~RowLockedByUpdater(sched.idx)
    /\ LET idx == sched.idx
           row == rows[idx]
           dec == SchedulerDecision(row.token_state)
       IN IF row.scheduled_for <= clock
          THEN IF dec[1] # "none" /\ SendFails
               THEN \* break: the state is not assigned, no notification check
                    /\ sched' = [sched EXCEPT !.idx = NumRows, !.pending = TRUE]
                    /\ UNCHANGED <<rows, channel>>
               ELSE /\ channel' = IF dec[1] = "none" THEN channel
                                  ELSE Append(channel,
                                         [kind |-> dec[1], target |-> idx, ts |-> clock])
                    /\ rows' = [rows EXCEPT ![idx] =
                                  check_notifications([row EXCEPT !.token_state = dec[2]], clock)]
                    /\ sched' = [sched EXCEPT !.idx = idx + 1, !.pending = TRUE]
          ELSE /\ rows' = [rows EXCEPT ![idx] = check_notifications(row, clock)]
               /\ sched' = [sched EXCEPT
                              !.idx = idx + 1,
                              !.next_at = MinNextAt(sched.next_at, row.scheduled_for),
                              !.pending = sched.pending \/ is_refresh_pending(row.token_state)]
               /\ UNCHANGED channel
    /\ UNCHANGED <<managed_tokens, clock, thresholds, provider, tokens, updater, calls, forced, last, handles, is_running, starter, reader, intro, other_vars>>

\* do_a_scheduling_round's result.
NextScheduledAt(now) ==
    IF sched.pending THEN now + PendingRecheckMs ELSE sched.next_at

\* run_scheduler_loop: the sleep computed after a round.
SleepDur(now) ==
    LET elapsed == diff_millis(sched.start, now)
        sleep_dur_ms_regular == minus_millis(max_cycle_dur_ms, elapsed)
        next_scheduled_at == NextScheduledAt(now)
    IN IF next_scheduled_at = U64Max
       THEN sleep_dur_ms_regular
       ELSE Min(sleep_dur_ms_regular, diff_millis(now, next_scheduled_at))

SchedulerEndRound ==
    /\ sched.pc = "round"
    /\ sched.idx = NumRows
    /\ sched' = Sleeping(clock + SleepDur(clock))
    /\ UNCHANGED <<managed_tokens, clock, thresholds, provider, rows, tokens, channel, updater, calls, forced, last, handles, is_running, starter, reader, intro, other_vars>>

\* ------------------------------------------------------------ the readers

\* AccessTokenSource::get_access_token
get_access_token(token_id) ==
    IF token_id \in TokenIds
    THEN tokens[token_id]
    ELSE [kind |-> "NoToken", val |-> token_id]

\* Mutant of refresh: the result of send is unwrapped instead of logged.
refresh_outcome_unwrap(sent) == IF sent THEN "returned" ELSE "panicked"

\* AccessTokenSource::refresh: how the call ends, given whether the send
\* succeeded: a send error is logged only.
refresh_outcome(sent) == "returned"

\* AccessTokenSource::refresh
Refresh ==
    /\ handles > 0
    /\ IF SendFails THEN TRUE ELSE forced < MaxForce
    /\ \E name \in TokenIds \cup {UnknownId} :
         channel' = IF SendFails
                    THEN channel
                    ELSE Append(channel, [kind |-> "ForceRefresh", target |-> name, ts |-> clock])
    /\ reader' = [reader EXCEPT !.refresh = refresh_outcome(~SendFails),
                                !.sent = ~SendFails]
    /\ forced' = IF SendFails THEN forced ELSE forced + 1
    /\ UNCHANGED <<managed_tokens, clock, thresholds, provider, rows, tokens, updater, sched, calls, last, handles, is_running, starter, intro, other_vars>>

\* Mutant of get_access_token: the reader takes the row's lock while it
\* holds the slot's.
get_access_token_row_locks_own(token_id) == {TokenIndex(token_id)}

\* Inner::get_access_token: the rows whose lock the reader takes while it
\* holds the slot's lock: none.
get_access_token_row_locks(token_id) == {}

\* get_access_token: guard.lock() on the slot of a managed id.
ReaderLock ==
    /\ handles > 0
    /\ \E id \in TokenIds :
         /\ ~SlotLockedByReader(id)
         /\ reader' = [reader EXCEPT !.locked = @ \cup {id}]
    /\ UNCHANGED <<managed_tokens, clock, thresholds, provider, rows, tokens, channel, updater, sched, calls, forced, last, handles, is_running, starter, intro, other_vars>>

\* get_access_token: the value is cloned and the slot's lock released.
ReaderUnlock ==
    /\ \E id \in reader.locked :
         /\ \A idx \in get_access_token_row_locks(id) : ~RowLockedByUpdater(idx)
         /\ reader' = [reader EXCEPT !.locked = @ \ {id}]
    /\ UNCHANGED <<managed_tokens, clock, thresholds, provider, rows, tokens, channel, updater, sched, calls, forced, last, handles, is_running, starter, intro, other_vars>>

\* ------------------------------------------------------------- the handles

\* The Arc<Inner> clones alive: the handles', the two worker threads' and the
\* one start_and_wait holds while it waits.
InnerRefs ==
    handles
    + (IF sched.pc \in {"sleep", "round"} THEN 1 ELSE 0)
    + (IF updater.pc \in {"recv", "calling"} THEN 1 ELSE 0)
    + (IF starter.pc = "waiting" THEN 1 ELSE 0)

\* Clone for AccessTokenSource
CloneHandle ==
    /\ handles > 0
    /\ handles < MaxHandles
    /\ handles' = handles + 1
    /\ UNCHANGED <<managed_tokens, clock, thresholds, provider, rows, tokens, channel, updater, sched, calls, forced, last, is_running, starter, reader, intro, other_vars>>

\* A handle is dropped; Drop for Inner runs when the last Arc<Inner> goes.
DropHandle ==
    /\ handles > 0
    /\ handles' = handles - 1
    /\ is_running' = IF InnerRefs - 1 = 0 THEN FALSE ELSE is_running
    /\ UNCHANGED <<managed_tokens, clock, thresholds, provider, rows, tokens, channel, updater, sched, calls, forced, last, starter, reader, intro, other_vars>>

\* ------------------------------------------------------------- the start

\* Mutant of start: the token ids are not compared.
has_duplicate_token_id_unchecked(ids) == FALSE

\* AccessTokenManager::start, the scan with the map "seen": TRUE when a
\* token id occurs a second time.
has_duplicate_token_id(ids) ==
    \E i, j \in 1 .. Len(ids) : i < j /\ ids[i] = ids[j]

\* No worker thread is spawned, no row or slot exists.
Unspawned(thread) == [thread EXCEPT !.pc = "unspawned"]

\* internals::initialize followed by internals::start.
Initialize ==
    /\ rows' = create_rows(clock)
    /\ tokens' = create_tokens
    /\ channel' = <<>>
    /\ updater' = Idle
    /\ sched' = Sleeping(clock)
    /\ is_running' = TRUE

\* AccessTokenManager::start
Start ==
    /\ starter.pc = "new"
    /\ starter.op = "start"
    /\ IF has_duplicate_token_id(managed_tokens)
       THEN /\ starter' = [starter EXCEPT !.pc = "done", !.result = "InitializationError"]
            /\ UNCHANGED <<rows, tokens, channel, updater, sched, is_running, handles>>
       ELSE /\ Initialize
            /\ handles' = 1
            /\ starter' = [starter EXCEPT !.pc = "done", !.result = "Ok"]
    /\ UNCHANGED <<managed_tokens, clock, thresholds, provider, calls, forced, last, reader, intro, other_vars>>

\* AccessTokenManager::start_and_wait up to its polling loop.
StartAndWait ==
    /\ starter.pc = "new"
    /\ starter.op = "start_and_wait"
    /\ IF has_duplicate_token_id(managed_tokens)
       THEN /\ starter' = [starter EXCEPT !.pc = "done", !.result = "InitializationError"]
            /\ UNCHANGED <<rows, tokens, channel, updater, sched, is_running>>
       ELSE /\ Initialize
            /\ starter' = [starter EXCEPT !.pc = "waiting", !.since = clock]
    /\ UNCHANGED <<managed_tokens, clock, thresholds, provider, calls, forced, last, handles, reader, intro, other_vars>>

\* start_and_wait: the closure handed to keys().all(), with the name the
\* code gives its result.
all_initialized ==
    \A id \in TokenIds : get_access_token(id).kind = "NotInitialized"

\* start_and_wait: one turn of the polling loop that ends the call.
StartAndWaitPoll ==
    /\ starter.pc = "waiting"
    /\ IF clock - starter.since >= starter.timeout
       THEN /\ starter' = [starter EXCEPT !.pc = "done", !.result = "InitializationError"]
            /\ UNCHANGED handles
       ELSE /\ all_initialized
            /\ starter' = [starter EXCEPT !.pc = "done", !.result = "Ok"]
            /\ handles' = 1
    /\ UNCHANGED <<managed_tokens, clock, thresholds, provider, rows, tokens, channel, updater, sched, calls, forced, last, is_running, reader, intro, other_vars>>

\* ------------------------------------------------- the introspection client

\* get_from_remote_no_retry / process_response: the outcomes of one request.
HttpOutcomes ==
    {"Ok", "NotAuthenticated", "Client", "Server", "Other",
     "InvalidResponseContent", "Connection", "Io"}

\* get_from_remote: the errors the backoff retries (BackoffError::Transient).
is_transient(kind) ==
    kind \notin {"InvalidResponseContent", "UrlError", "NotAuthenticated", "Client"}

\* Mutant of get_with_fallback: every error of the primary falls back.
falls_back_always(kind) == TRUE

\* get_with_fallback, the or_else closure: the errors of the primary endpoint
\* it hands to the fallback.
falls_back(kind) == kind # "Client"

\* No call of introspect yet; fb: a fallback endpoint is configured.
NoIntrospection(fb) ==
    [pc |-> "idle", fallback |-> fb, attempts |-> 0, primary |-> "none",
     fallback_calls |-> 0, fallback_attempts |-> 0, result |-> "none"]

\* introspect: the URLs are completed, get_with_fallback starts.
Introspect ==
    /\ intro.pc = "idle"
    /\ intro' = [intro EXCEPT !.pc = "primary"]
    /\ UNCHANGED <<manager_vars, other_vars>>

\* get_from_remote(url): one request to the primary endpoint; when the call
\* ends with an error, get_with_fallback decides on the fallback.
PrimaryAttempt ==
    /\ intro.pc = "primary"
    /\ \E outcome \in HttpOutcomes, budget_left \in BOOLEAN :
         LET n == intro.attempts + 1 IN
         IF outcome = "Ok"
         THEN intro' = [intro EXCEPT !.attempts = n, !.primary = "Ok",
                                     !.pc = "done", !.result = "Ok"]
         ELSE IF is_transient(outcome) /\ budget_left /\ n < MaxAttempts
         THEN intro' = [intro EXCEPT !.attempts = n]
         ELSE IF falls_back(outcome) /\ intro.fallback
         THEN intro' = [intro EXCEPT !.attempts = n, !.primary = outcome,
                                     !.pc = "fallback", !.fallback_calls = @ + 1]
         ELSE intro' = [intro EXCEPT !.attempts = n, !.primary = outcome,
                                     !.pc = "done", !.result = outcome]
    /\ UNCHANGED <<manager_vars, other_vars>>

\* get_from_remote(fallback_url): one request to the fallback endpoint.
FallbackAttempt ==
    /\ intro.pc = "fallback"
    /\ \E outcome \in HttpOutcomes, budget_left \in BOOLEAN :
         LET n == intro.fallback_attempts + 1 IN
         IF outcome # "Ok" /\ is_transient(outcome) /\ budget_left /\ n < MaxAttempts
         THEN intro' = [intro EXCEPT !.fallback_attempts = n]
         ELSE intro' = [intro EXCEPT !.fallback_attempts = n,
                                     !.pc = "done", !.result = outcome]
    /\ UNCHANGED <<manager_vars, other_vars>>

\* ------------------------------------- the asynchronous introspection client

\* The budgets (ms) handed to introspect_with_retry: none, and MaxBudget.
Budgets == {0, MaxBudget}

\* The time (ms) one HTTP request takes until its outcome is known.
RequestDurations == {5, 20}

\* The delays (ms) RetryIf sleeps before the next run of the action: the
\* jittered values of the strategy ExponentialBackoff::from_millis(10).
RetryDelays == {1, 15}

\* execute_once / process_response: the outcomes of one run.  A hyper error
\* of the request becomes Other; UrlError is the failure of complete_url,
\* before any request is sent.
AsyncOutcomes ==
    {"Ok", "NotAuthenticated", "Client", "Server", "Other",
     "InvalidResponseContent", "Io", "UrlError"}

\* execute_once: TRUE when the run sends an HTTP request (client.get).
sends_request(outcome) == outcome # "UrlError"

\* Mutant of is_retry_suggested: a client error is retried.
is_retry_suggested_for_client(kind) ==
    kind \in {"Connection", "Io", "Client", "Server", "Other"}

\* TokenInfoError::is_retry_suggested
is_retry_suggested(kind) ==
    kind \in {"Connection", "Io", "Server", "Other"}

\* execute_with_retry: the error returned for a budget of 0.
ZeroBudgetError == "Other"

\* execute_with_retry, the closure "action": TRUE when it runs execute_once.
action_executes(now, deadline) == now <= deadline

\* execute_with_retry, the closure "condition".
condition(now, deadline, err) ==
    now <= deadline /\ is_retry_suggested(err)

\* No call of introspect_with_retry yet; fb: a fallback endpoint is
\* configured (fallback_url_prefix is Some).
NoBudgetedCall(budget, fb) ==
    [pc |-> "idle", budget |-> budget, fallback |-> fb, now |-> 0, deadline |-> 0,
     attempts |-> 0, requests |-> 0, fallback_requests |-> 0,
     err |-> "none", result |-> "none"]

\* introspect_with_retry: execute_with_retry up to RetryIf::spawn.
IntrospectWithRetry ==
    /\ budgeted.pc = "idle"
    /\ budgeted' = IF budgeted.budget = 0
                   THEN [budgeted EXCEPT !.pc = "done", !.err = ZeroBudgetError,
                                         !.result = ZeroBudgetError]
                   ELSE [budgeted EXCEPT !.pc = "action",
                                         !.deadline = budgeted.now + budgeted.budget]
    /\ UNCHANGED <<manager_vars, intro, service, formatted, builder, response>>

\* RetryIf runs the action: execute_once against url_prefix while the
\* deadline has not passed, the error BudgetExceeded afterwards.
RetryAction ==
    /\ budgeted.pc = "action"
    /\ IF action_executes(budgeted.now, budgeted.deadline)
       THEN \E outcome \in AsyncOutcomes, dur \in RequestDurations :
              budgeted' = [budgeted EXCEPT
                  !.attempts = @ + 1,
                  !.requests = IF sends_request(outcome) THEN @ + 1 ELSE @,
                  !.now      = IF sends_request(outcome) THEN @ + dur ELSE @,
                  !.err      = IF outcome = "Ok" THEN @ ELSE outcome,
                  !.result   = IF outcome = "Ok" THEN "Ok" ELSE @,
                  !.pc       = IF outcome = "Ok" THEN "done" ELSE "condition"]
       ELSE budgeted' = [budgeted EXCEPT !.err = "BudgetExceeded", !.pc = "condition"]
    /\ UNCHANGED <<manager_vars, intro, service, formatted, builder, response>>

\* RetryIf on an error of the action: the condition decides between the
\* next delay of the strategy and the end of the call with that error.
RetryCondition ==
    /\ budgeted.pc = "condition"
    /\ IF condition(budgeted.now, budgeted.deadline, budgeted.err)
       THEN \E delay \in RetryDelays :
              budgeted' = [budgeted EXCEPT !.pc = "action", !.now = @ + delay]
       ELSE budgeted' = [budgeted EXCEPT !.pc = "done", !.result = budgeted.err]
    /\ UNCHANGED <<manager_vars, intro, service, formatted, builder, response>>

\* ------------------------------------------- the calls of the token service

\* The status codes the authorization server answers with.
StatusCodes == {200, 302, 400, 401, 404, 500, 503}

\* StatusCode::is_client_error, StatusCode::is_server_error
is_client_error(status) == status >= 400 /\ status < 500

is_server_error(status) == status >= 500 /\ status < 600

\* The bodies of an answer: the JSON the status calls for, text that is not
\* that JSON, and bytes that are not UTF-8.
Bodies == {"json", "text", "bytes"}

\* evaluate_response (with parse_response, parse_error and the conversion of
\* a Utf8Error): the result of request_access_token for an answer.
evaluate_response(status, body) ==
    CASE status = 200 -> IF body = "json" THEN "Ok" ELSE "Parse"
      [] status = 400 -> IF body = "json" THEN "BadAuthorizationRequest" ELSE "Parse"
      [] status # 400 /\ is_client_error(status) ->
             IF body = "bytes" THEN "Other" ELSE "Server"
      [] is_server_error(status) ->
             IF body = "bytes" THEN "Other" ELSE "Server"
      [] OTHER -> IF body = "bytes" THEN "Other" ELSE "Client"

\* The errors of an AccessTokenProvider.
AccessTokenProviderErrors ==
    {"BadAuthorizationRequest", "Client", "Server", "Connection", "Parse",
     "Credentials", "Other"}

\* What one call of request_access_token meets: the credentials cannot be
\* loaded, the request cannot be sent or the answer not be read, an answer
\* arrives; or, with another implementation of the provider, any result.
ProviderRuns ==
    {[via |-> "credentials", status |-> 0, body |-> "none", gives |-> "Credentials"],
     [via |-> "connection", status |-> 0, body |-> "none", gives |-> "Connection"]}
    \cup {[via |-> "response", status |-> st, body |-> b, gives |-> evaluate_response(st, b)] :
             st \in StatusCodes, b \in Bodies}
    \cup {[via |-> "custom", status |-> 0, body |-> "none", gives |-> r] :
             r \in AccessTokenProviderErrors \cup {"Ok"}}

\* Mutant of call_token_service: a Client error is retried.
is_transient_error_with_client(err) ==
    err \in {"Server", "Connection", "Credentials", "Other", "Client"}

\* call_token_service: the errors wrapped in BError::Transient.
is_transient_error(err) ==
    err \in {"Server", "Connection", "Credentials", "Other"}

\* No call of call_token_service yet.
NoServiceCall ==
    [pc |-> "idle", attempts |-> 0, via |-> "none", status |-> 0, body |-> "none",
     err |-> "none", result |-> "none", exhausted |-> FALSE]

\* call_token_service: the closure and the backoff are set up.
CallTokenService ==
    /\ service.pc = "idle"
    /\ service' = [service EXCEPT !.pc = "calling"]
    /\ UNCHANGED <<manager_vars, intro, budgeted, formatted, builder, response>>

\* call.retry(&mut backoff): one run of the closure, that is one call of
\* provider.request_access_token, and the decision of the backoff; the
\* backoff gives up when its time has elapsed, after MaxAttempts calls at
\* the latest.
RequestAccessToken ==
    /\ service.pc = "calling"
    /\ \E run \in ProviderRuns, time_left \in BOOLEAN :
         LET n == service.attempts + 1
             seen == [service EXCEPT !.attempts = n, !.via = run.via,
                                     !.status = run.status, !.body = run.body]
         IN IF run.gives = "Ok"
            THEN service' = [seen EXCEPT !.pc = "done", !.result = "Ok"]
            ELSE IF is_transient_error(run.gives)
            THEN IF time_left /\ n < MaxAttempts
                 THEN service' = [seen EXCEPT !.err = run.gives]
                 ELSE service' = [seen EXCEPT !.err = run.gives, !.pc = "done",
                                              !.result = run.gives, !.exhausted = TRUE]
            ELSE service' = [seen EXCEPT !.err = run.gives, !.pc = "done",
                                         !.result = run.gives]
    /\ UNCHANGED <<manager_vars, intro, budgeted, formatted, builder, response>>

\* ------------------------------------------------ formatting AccessTokens

\* The characters of a secret, and the secrets of up to MaxSecretLen of them.
SecretChars == {"x", "y"}

Secrets ==
    UNION {[1 .. n -> SecretChars] : n \in 0 .. MaxSecretLen}

\* AccessToken::new: the tuple struct AccessToken(pub String).
AccessToken_new(secret) == <<secret>>

\* impl fmt::Display for AccessToken: the text written, as its pieces.
Display_fmt(token) == <<"<secret-access-token>">>

\* Mutant of the Debug implementation: the one #[derive(Debug)] generates.
Debug_fmt_derived(token) == <<"AccessToken(", "\"">> \o token[1] \o <<"\"", ")">>

\* impl fmt::Debug for AccessToken: the text written, as its pieces.
Debug_fmt(token) == <<"AccessToken(", "<secret>", ")">>

\* Two tokens, nothing formatted yet.
Unformatted(secret1, secret2) ==
    [left |-> AccessToken_new(secret1), right |-> AccessToken_new(secret2),
     with |-> "none", left_out |-> <<>>, right_out |-> <<>>]

\* format!("{}", token) for both tokens.
FormatDisplay ==
    /\ formatted' = [formatted EXCEPT !.with = "Display",
                                      !.left_out = Display_fmt(formatted.left),
                                      !.right_out = Display_fmt(formatted.right)]
    /\ UNCHANGED <<manager_vars, intro, budgeted, service, builder, response>>

\* format!("{:?}", token) for both tokens.
FormatDebug ==
    /\ formatted' = [formatted EXCEPT !.with = "Debug",
                                      !.left_out = Debug_fmt(formatted.left),
                                      !.right_out = Debug_fmt(formatted.right)]
    /\ UNCHANGED <<manager_vars, intro, budgeted, service, builder, response>>

\* ------------------------------------------------------ the group builder

\* ManagedTokenGroupBuilder::default (single_token: with a provider and a
\* token), and what the caller has asked for so far: nothing.
ManagedTokenGroupBuilder_default ==
    [pc |-> "building",
     refresh_threshold |-> DefaultThresholds[1],
     warning_threshold |-> DefaultThresholds[2],
     asked_refresh |-> <<>>, asked_warning |-> <<>>, group |-> <<>>]

\* ManagedTokenGroupBuilder::with_refresh_threshold
with_refresh_threshold(self, refresh_threshold) ==
    [self EXCEPT !.refresh_threshold = refresh_threshold]

\* ManagedTokenGroupBuilder::with_warning_threshold
with_warning_threshold(self, warning_threshold) ==
    [self EXCEPT !.refresh_threshold = warning_threshold]

\* A call of with_refresh_threshold.
WithRefreshThreshold ==
    /\ builder.pc = "building"
    /\ \E r \in ThresholdGrid :
         builder' = [with_refresh_threshold(builder, r) EXCEPT !.asked_refresh = <<r>>]
    /\ UNCHANGED <<manager_vars, intro, budgeted, service, formatted, response>>

\* A call of with_warning_threshold.
WithWarningThreshold ==
    /\ builder.pc = "building"
    /\ \E w \in ThresholdGrid :
         builder' = [with_warning_threshold(builder, w) EXCEPT !.asked_warning = <<w>>]
    /\ UNCHANGED <<manager_vars, intro, budgeted, service, formatted, response>>

\* ManagedTokenGroupBuilder::build
Build ==
    /\ builder.pc = "building"
    /\ builder' = [builder EXCEPT
         !.pc = "built",
         !.group = IF BuildAccepts(builder.refresh_threshold, builder.warning_threshold)
                   THEN <<[refresh_threshold |-> builder.refresh_threshold,
                           warning_threshold |-> builder.warning_threshold]>>
                   ELSE <<"InitializationError">>]
    /\ UNCHANGED <<manager_vars, intro, budgeted, service, formatted, response>>

\* ------------------------------------- a response with a wide expires_in

\* The values of the word: 0 .. WordMax stands for 0 .. u64::max_value().
Word == 2 ^ WordBits

WordMax == Word - 1

\* The numbers a response carries as expires_in: a negative one, none to a
\* few seconds, the largest whose milliseconds fit the word and the next,
\* the largest of the word, and one beyond it.
JsonNumbers ==
    {-1, 0, 1, WordMax \div 1000, WordMax \div 1000 + 1, WordMax, Word}

\* parse_response: expires_in.as_fixed_point_u64(0) gives the seconds of a
\* number that is not negative and fits the word; any other is a Parse error.
parse_expires_in(number) ==
    IF number >= 0 /\ number <= WordMax THEN <<number>> ELSE <<>>

\* The clock values at which the response is applied.
ResponseTimes == {0, 1000}

\* An addition or multiplication of words overflows.
Overflows(exact) == exact > WordMax

\* The wrapped result of the release build.
Wrapped(exact) == exact % Word

\* f32 as u64: the cast saturates.
Saturated(exact) == IF exact > WordMax THEN WordMax ELSE exact

\* millis_from_duration(Duration::from_secs(secs)), exact.
millis_from_duration(secs) == (secs * 1000) + (0 \div 1000000)

\* update_token_ok on words: the timers it computes from expires_in (s) at
\* clock value now, with the thresholds in percent; overflowed is TRUE when
\* one of the operations exceeds the word (a panic of a build with overflow
\* checks, a wrapped value otherwise).
update_token_ok_words(secs, now, pcts) ==
    LET expires_in_ms == Wrapped(millis_from_duration(secs))
        refresh_in    == Saturated(Scaled(expires_in_ms, pcts[1]))
        warn_in       == Saturated(Scaled(expires_in_ms, pcts[2]))
    IN [last_touched  |-> now,
        expires_at    |-> Wrapped(now + expires_in_ms),
        refresh_at    |-> Wrapped(now + refresh_in),
        scheduled_for |-> Wrapped(now + refresh_in),
        warn_at       |-> Wrapped(now + warn_in),
        overflowed    |-> \/ Overflows(millis_from_duration(secs))
                          \/ Overflows(now + expires_in_ms)
                          \/ Overflows(now + refresh_in)
                          \/ Overflows(now + warn_in)]

\* No response has been received.
NoResponse ==
    [pc |-> "idle", number |-> 0, now |-> 0, pcts |-> DefaultThresholds,
     overflow_checks |-> FALSE, row |-> <<>>]

\* parse_response: the response of the token service is parsed.
ParseResponse ==
    /\ response.pc = "idle"
    /\ \E number \in JsonNumbers :
         response' = [response EXCEPT
                        !.number = number,
                        !.pc = IF parse_expires_in(number) = <<>> THEN "rejected" ELSE "parsed"]
    /\ UNCHANGED <<manager_vars, intro, budgeted, service, formatted, builder>>

\* update_token_ok with the parsed response; a build with overflow checks
\* panics on an overflow, any other build goes on with the wrapped value.
UpdateTokenOk ==
    /\ response.pc = "parsed"
    /\ LET updated == update_token_ok_words(parse_expires_in(response.number)[1],
                                              response.now, response.pcts)
       IN response' = [response EXCEPT
                         !.pc = IF updated.overflowed /\ response.overflow_checks
                                THEN "panicked" ELSE "updated",
                         !.row = IF updated.overflowed /\ response.overflow_checks
                                 THEN <<>> ELSE <<updated>>]
    /\ UNCHANGED <<manager_vars, intro, budgeted, service, formatted, builder>>

\* ---------------------------------------------------------------- the clock

\* Mutant of the clock: a wall clock that is also set back.
Tick_set_back ==
    /\ \E step \in TickSteps :
         \/ /\ clock + step <= Horizon
            /\ clock' = clock + step
         \/ /\ clock - step >= 0
            /\ clock' = clock - step
    /\ UNCHANGED <<managed_tokens, thresholds, provider, rows, tokens, channel, updater, sched, calls, forced, last, handles, is_running, starter, reader, intro, other_vars>>

\* Clock::now() between two readings: time passes, it never goes back.
Tick ==
    /\ \E step \in TickSteps :
         /\ clock + step <= Horizon
         /\ clock' = clock + step
    /\ UNCHANGED <<managed_tokens, thresholds, provider, rows, tokens, channel, updater, sched, calls, forced, last, handles, is_running, starter, reader, intro, other_vars>>

\* A step (ms) of the clock after which a reading falls less than
\* PendingRecheckMs before the refresh of a token answered for 1 s is due
\* (2 * 370 = 740 < 750).
NearDueSteps == {370}

\* Clock::now() between two readings, by such steps.
TickNearDue ==
    /\ \E step \in NearDueSteps :
         /\ clock + step <= MaxTicks * step
         /\ clock' = clock + step
    /\ UNCHANGED <<managed_tokens, thresholds, provider, rows, tokens, channel, updater, sched, calls, forced, last, handles, is_running, starter, reader, intro, other_vars>>

\* A step (ms) of the clock of half the minimum notification interval.
NotificationSteps == {min_notification_interval_ms \div 2}

\* Clock::now() between two readings, by such steps.
TickNotification ==
    /\ \E step \in NotificationSteps :
         /\ clock + step <= MaxTicks * step
         /\ clock' = clock + step
    /\ UNCHANGED <<managed_tokens, thresholds, provider, rows, tokens, channel, updater, sched, calls, forced, last, handles, is_running, starter, reader, intro, other_vars>>

\* ------------------------------------------------------------ specification

\* start() has returned Ok(handle).
Started == [op |-> "start", pc |-> "done", result |-> "Ok", since |-> 0, timeout |-> 0]

\* No reader holds a slot lock, none has called refresh().
NoReader == [locked |-> {}, refresh |-> "none", sent |-> FALSE]

\* The components that take no part in a specification stay as constructed:
\* every one but the named.
OthersIdle(busy) ==
    /\ IF busy = "budgeted" THEN TRUE ELSE budgeted = NoBudgetedCall(0, FALSE)
    /\ IF busy = "service" THEN TRUE ELSE service = NoServiceCall
    /\ IF busy = "formatted" THEN TRUE ELSE formatted = Unformatted(<<>>, <<>>)
    /\ IF busy = "builder" THEN TRUE ELSE builder = ManagedTokenGroupBuilder_default
    /\ IF busy = "response" THEN TRUE ELSE response = NoResponse

\* internals::initialize, at clock 0, for the given tokens.
ManagerStarted(ids, pairs, answers) ==
    /\ managed_tokens = ids
    /\ clock = 0
    /\ thresholds \in {p \in pairs : BuildAccepts(p[1], p[2])}
    /\ provider \in answers
    /\ rows = create_rows(0)
    /\ tokens = create_tokens
    /\ channel = <<>>
    /\ updater = Idle
    /\ sched = Sleeping(0)
    /\ calls = 0
    /\ forced = 0
    /\ last = [op |-> "none", idx |-> -1, prev |-> "none", arg |-> 0]
    /\ handles = 1
    /\ is_running = TRUE
    /\ starter = Started
    /\ reader = NoReader

\* The started manager; no other component is in use.
InitWith(ids, pairs, answers) ==
    /\ ManagerStarted(ids, pairs, answers)
    /\ intro = NoIntrospection(FALSE)
    /\ OthersIdle("none")

Next ==
    \/ Tick
    \/ SchedulerStartRound
    \/ SchedulerRow
    \/ SchedulerEndRound
    \/ UpdaterReceive
    \/ UpdaterSuccess
    \/ UpdaterFailure
    \/ Refresh

\* One managed token.
Init == InitWith(<<"A">>, {DefaultThresholds}, {DefaultProvider})

Spec == Init /\ [][Next]_vars

\* One managed token, of a group with any thresholds build() accepts and a
\* provider answering any of the durations; no reader asks for a refresh.
InitWide == InitWith(<<"A">>, ThresholdPairs, WideProviders)

NextWide ==
    \/ Tick
    \/ SchedulerStartRound
    \/ SchedulerRow
    \/ SchedulerEndRound
    \/ UpdaterReceive
    \/ UpdaterSuccess
    \/ UpdaterFailure

SpecWide == InitWide /\ [][NextWide]_vars

\* One managed token; readers take and release the locks of the slots while
\* the workers run.
NextLocks ==
    \/ Tick
    \/ SchedulerStartRound
    \/ SchedulerRow
    \/ SchedulerEndRound
    \/ UpdaterReceive
    \/ UpdaterSuccess
    \/ UpdaterFailure
    \/ ReaderLock
    \/ ReaderUnlock

SpecLocks == Init /\ [][NextLocks]_vars

\* One managed token; the handle is cloned and the handles are dropped
\* while the workers run.
NextLife ==
    \/ Tick
    \/ SchedulerStartRound
    \/ SchedulerRow
    \/ SchedulerEndRound
    \/ UpdaterReceive
    \/ UpdaterSuccess
    \/ UpdaterFailure
    \/ CloneHandle
    \/ DropHandle

SpecLife == Init /\ [][NextLife]_vars

\* The manager is started, by start or by start_and_wait, with groups whose
\* token ids may repeat.
InitStart ==
    /\ managed_tokens \in GroupInputs
    /\ clock = 0
    /\ thresholds = DefaultThresholds
    /\ provider = DefaultProvider
    /\ rows = <<>>
    /\ tokens = <<>>
    /\ channel = <<>>
    /\ updater = Unspawned(Idle)
    /\ sched = Unspawned(Sleeping(0))
    /\ calls = 0
    /\ forced = 0
    /\ last = [op |-> "none", idx |-> -1, prev |-> "none", arg |-> 0]
    /\ handles = 0
    /\ is_running = TRUE
    /\ starter \in {[op |-> op, pc |-> "new", result |-> "none", since |-> 0, timeout |-> t] :
                       op \in {"start", "start_and_wait"}, t \in WaitTimeouts}
    /\ reader = NoReader
    /\ intro = NoIntrospection(FALSE)
    /\ OthersIdle("none")

NextStart ==
    \/ Start
    \/ StartAndWait
    \/ StartAndWaitPoll
    \/ Tick
    \/ SchedulerStartRound
    \/ SchedulerRow
    \/ SchedulerEndRound
    \/ UpdaterReceive
    \/ UpdaterSuccess
    \/ UpdaterFailure

SpecStart == InitStart /\ [][NextStart]_vars

\* A call of introspect, with and without a fallback endpoint.
InitIntrospect ==
    /\ \E fb \in BOOLEAN : intro = NoIntrospection(fb)
    /\ managed_tokens = <<"A">>
    /\ clock = 0
    /\ thresholds = DefaultThresholds
    /\ provider = DefaultProvider
    /\ rows = create_rows(0)
    /\ tokens = create_tokens
    /\ channel = <<>>
    /\ updater = Idle
    /\ sched = Sleeping(0)
    /\ calls = 0
    /\ forced = 0
    /\ last = [op |-> "none", idx |-> -1, prev |-> "none", arg |-> 0]
    /\ handles = 1
    /\ is_running = TRUE
    /\ starter = Started
    /\ reader = NoReader
    /\ OthersIdle("none")

NextIntrospect ==
    \/ Introspect
    \/ PrimaryAttempt
    \/ FallbackAttempt

SpecIntrospect == InitIntrospect /\ [][NextIntrospect]_vars

\* A call of introspect_with_retry, with and without a budget, with and
\* without a fallback endpoint configured.
InitBudgeted ==
    /\ ManagerStarted(<<"A">>, {DefaultThresholds}, {DefaultProvider})
    /\ intro = NoIntrospection(FALSE)
    /\ budgeted \in {NoBudgetedCall(budget, fb) : budget \in Budgets, fb \in BOOLEAN}
    /\ OthersIdle("budgeted")

NextBudgeted ==
    \/ IntrospectWithRetry
    \/ RetryAction
    \/ RetryCondition

SpecBudgeted == InitBudgeted /\ [][NextBudgeted]_vars

\* One refresh: call_token_service with the provider of the group.
InitService ==
    /\ ManagerStarted(<<"A">>, {DefaultThresholds}, {DefaultProvider})
    /\ intro = NoIntrospection(FALSE)
    /\ service = NoServiceCall
    /\ OthersIdle("service")

NextService ==
    \/ CallTokenService
    \/ RequestAccessToken

SpecService == InitService /\ [][NextService]_vars

\* Two AccessTokens with any secrets are formatted.
InitFormat ==
    /\ ManagerStarted(<<"A">>, {DefaultThresholds}, {DefaultProvider})
    /\ intro = NoIntrospection(FALSE)
    /\ formatted \in {Unformatted(s1, s2) : s1 \in Secrets, s2 \in Secrets}
    /\ OthersIdle("formatted")

NextFormat ==
    \/ FormatDisplay
    \/ FormatDebug

SpecFormat == InitFormat /\ [][NextFormat]_vars

\* A group is built: thresholds are set, in any order and any number of
\* times, and build is called.
InitBuilder ==
    /\ ManagerStarted(<<"A">>, {DefaultThresholds}, {DefaultProvider})
    /\ intro = NoIntrospection(FALSE)
    /\ builder = ManagedTokenGroupBuilder_default
    /\ OthersIdle("builder")

NextBuilder ==
    \/ WithRefreshThreshold
    \/ WithWarningThreshold
    \/ Build

SpecBuilder == InitBuilder /\ [][NextBuilder]_vars

\* The updater alone, as its unit tests drive it: commands are handed to
\* on_command while the test sets the clock; no scheduler thread runs.
NextOnCommand ==
    \/ Tick
    \/ OnCommandScheduledRefresh
    \/ UpdaterReceive
    \/ UpdaterSuccess
    \/ UpdaterFailure

SpecOnCommand == Init /\ [][NextOnCommand]_vars

\* The clock values at which the rows are created.
CreatedAt == {0, 250}

\* The updater alone, driven with commands of any kind and timestamp; the
\* rows were created at some clock value and are Uninitialized, or
\* Initializing as the scheduler (or the test) has marked them.
InitOnCommandAt ==
    /\ managed_tokens = <<"A">>
    /\ \E now \in CreatedAt, token_state \in {"Uninitialized", "Initializing"} :
         /\ clock = now
         /\ rows = [idx \in RowIdx |->
                      [create_rows(now)[idx] EXCEPT !.token_state = token_state]]
    /\ thresholds = DefaultThresholds
    /\ provider = DefaultProvider
    /\ tokens = create_tokens
    /\ channel = <<>>
    /\ updater = Idle
    /\ sched = Sleeping(0)
    /\ calls = 0
    /\ forced = 0
    /\ last = [op |-> "none", idx |-> -1, prev |-> "none", arg |-> 0]
    /\ handles = 1
    /\ is_running = TRUE
    /\ starter = Started
    /\ reader = NoReader
    /\ intro = NoIntrospection(FALSE)
    /\ OthersIdle("none")

NextOnCommandAt ==
    \/ Tick
    \/ OnCommandAt
    \/ UpdaterReceive
    \/ UpdaterSuccess
    \/ UpdaterFailure

SpecOnCommandAt == InitOnCommandAt /\ [][NextOnCommandAt]_vars

\* Two managed tokens of one group.
InitTwo == InitWith(<<"A", "B">>, {DefaultThresholds}, {DefaultProvider})

SpecTwo == InitTwo /\ [][Next]_vars

\* Two managed tokens, within one reading of the clock: the first round of
\* the scheduler, the updater and the readers' refreshes.
NextPair ==
    \/ SchedulerStartRound
    \/ SchedulerRow
    \/ SchedulerEndRound
    \/ UpdaterReceive
    \/ UpdaterSuccess
    \/ UpdaterFailure
    \/ Refresh

SpecPair == InitTwo /\ [][NextPair]_vars

\* Two managed tokens and a clock read shortly before a refresh is due.
NextSleep ==
    \/ TickNearDue
    \/ SchedulerStartRound
    \/ SchedulerRow
    \/ SchedulerEndRound
    \/ UpdaterReceive
    \/ UpdaterSuccess
    \/ UpdaterFailure

SpecSleep == InitTwo /\ [][NextSleep]_vars

\* One managed token, over a time of several notification intervals.
NextNotification ==
    \/ TickNotification
    \/ SchedulerStartRound
    \/ SchedulerRow
    \/ SchedulerEndRound
    \/ UpdaterReceive
    \/ UpdaterSuccess
    \/ UpdaterFailure
    \/ Refresh

SpecNotification == Init /\ [][NextNotification]_vars

\* The updater alone with two managed tokens of one group, driven with
\* commands of any kind and timestamp.
SpecOnCommandPair == InitTwo /\ [][NextOnCommandAt]_vars

\* A provider response is parsed and applied to a row, at a clock value, for
\* a group with any thresholds build() accepts, by a build with or without
\* overflow checks.
InitResponse ==
    /\ ManagerStarted(<<"A">>, {DefaultThresholds}, {DefaultProvider})
    /\ intro = NoIntrospection(FALSE)
    /\ \E now \in ResponseTimes, checks \in BOOLEAN,
          pcts \in {p \in ThresholdPairs : BuildAccepts(p[1], p[2])} :
         response = [NoResponse EXCEPT !.now = now, !.overflow_checks = checks,
                                       !.pcts = pcts]
    /\ OthersIdle("response")

NextResponse ==
    \/ ParseResponse
    \/ UpdateTokenOk

SpecResponse == InitResponse /\ [][NextResponse]_vars

\* ----------------------------------------------------------------- claims

\* The updater step that ends a provider call with an error for row idx.
FailureStep(idx) ==
    /\ updater.pc = "calling"
    /\ updater.idx = idx
    /\ updater'.pc = "recv"
    /\ last'.op \in {"err", "kept"}

\* The updater step that ends a provider call with a response for row idx.
SuccessStep(idx) ==
    /\ updater.pc = "calling"
    /\ updater.idx = idx
    /\ updater'.pc = "recv"
    /\ last'.op = "ok"

Timers(row) ==
    <<row.last_touched, row.refresh_at, row.warn_at, row.expires_at, row.scheduled_for>>

\* C1: when a provider call fails for a row that is Ok or OkPending and whose
\* token has not expired (now < expires_at), the step leaves the slot and the
\* row's timers as they were, so a reader still gets the token issued before.
C1_ValidTokenSurvivesFailure ==
    [][\A idx \in RowIdx :
         (/\ FailureStep(idx)
          /\ rows[idx].token_state \in {"Ok", "OkPending"}
          /\ clock < rows[idx].expires_at)
         => /\ tokens' = tokens
            /\ Timers(rows'[idx]) = Timers(rows[idx])
            /\ get_access_token(RowTokenId(idx))' = get_access_token(RowTokenId(idx))
            /\ get_access_token(RowTokenId(idx)).kind = "Ok"]_vars

\* C1 witness: a failure has just been handled for a row whose token is still
\* valid, and the slot holds that token.
C1_Witness ==
    /\ last.op = "kept"
    /\ clock < rows[last.idx].expires_at
    /\ tokens[RowTokenId(last.idx)].kind = "Ok"

\* The commands in the channel that address row idx.
CommandsFor(idx) ==
    {k \in 1 .. Len(channel) : CommandRow(channel[k]) = idx}

\* Those of them the scheduler sent.
SchedulerCommandsFor(idx) ==
    {k \in CommandsFor(idx) : channel[k].kind \in {"ScheduledRefresh", "RefreshOnError"}}

\* A refresh of row idx is outstanding: a command for it is in the channel
\* or the updater is executing one.
Outstanding(idx) == CommandsFor(idx) # {} \/ RowLockedByUpdater(idx)

\* The scheduler's step over row idx, and the step in which it sends a
\* command for row idx.
SchedulerVisits(idx) ==
    /\ sched.pc = "round"
    /\ sched.idx = idx
    /\ sched'.pc = "round"
    /\ sched'.idx # idx

SchedulerEmits(idx) ==
    /\ SchedulerVisits(idx)
    /\ Len(channel') = Len(channel) + 1
    /\ channel'[Len(channel')].target = idx

\* C2: after a refresh of a still-valid token has failed, the scheduler sends
\* a new refresh command for the row in a following round: when it comes to
\* the row, the row is due and nothing is outstanding for it, it sends one.
C2_SchedulerRetriesAfterKeptFailure ==
    [][\A idx \in RowIdx :
         (/\ last.op = "kept"
          /\ last.idx = idx
          /\ SchedulerVisits(idx)
          /\ rows[idx].scheduled_for <= clock
          /\ ~Outstanding(idx)
          /\ ~SendFails)
         => SchedulerEmits(idx)]_vars

\* C3: once the provider answers every call, every token comes to hold a
\* token and is refreshed again before it expires: no slot holds an expired
\* token while no refresh of it is outstanding and the scheduler, the row
\* being in a pending state, will send none.
C3_NoExpiredTokenForLackOfRefresh ==
    \A idx \in RowIdx :
        (/\ tokens[RowTokenId(idx)].kind = "Ok"
         /\ rows[idx].expires_at <= clock
         /\ updater.pc # "panicked")
        => \/ Outstanding(idx)
           \/ ~is_refresh_pending(rows[idx].token_state)

\* The updater step that takes a command for row idx off the channel.
ReceiveStep(idx) ==
    /\ updater.pc = "recv"
    /\ channel # <<>>
    /\ channel' = Tail(channel)
    /\ CommandRow(Head(channel)) = idx

\* The command is dropped: no provider call, row and slot as they were.
Skipped ==
    /\ updater'.pc = "recv"
    /\ last'.op = "skip"
    /\ rows' = rows
    /\ tokens' = tokens
    /\ calls' = calls

C4_EqualTimestampExecuted ==
    /\ updater.pc = "calling"
    /\ ~is_uninitialized(rows[updater.idx].token_state)
    /\ updater.ts = rows[updater.idx].last_touched

\* C5: a provider call that succeeds at clock value now with token k and
\* expires_in d sets the slot to Ok(k) and the row to last_touched = now,
\* expires_at = now + d, refresh_at = now + d * refresh_threshold,
\* warn_at = now + d * warning_threshold, scheduled_for = refresh_at and
\* token_state = Ok, whatever the row's state was.
C5_SuccessSetsSlotAndRow ==
    [][\A idx \in RowIdx :
         SuccessStep(idx)
         => LET d   == last'.arg
                now == clock
                row == rows'[idx]
            IN /\ d \in provider
               /\ tokens'[RowTokenId(idx)] =
                    [kind |-> "Ok",
                     val  |-> [issued_for |-> RowTokenId(idx), serial |-> calls]]
               /\ row.last_touched = now
               /\ row.expires_at = now + d
               /\ row.refresh_at = now + (d * thresholds[1]) \div 100
               /\ row.warn_at = now + (d * thresholds[2]) \div 100
               /\ row.scheduled_for = row.refresh_at
               /\ row.token_state = "Ok"]_vars

\* C5 witness: a token has been refreshed after an error, at a clock value
\* other than 0: slot and row hold the new values.
C5_Witness ==
    /\ last.op = "ok"
    /\ last.prev = "ErrorPending"
    /\ clock > 0
    /\ rows[last.idx].last_touched = clock
    /\ tokens[RowTokenId(last.idx)].kind = "Ok"

\* C6: a failed refresh applied at clock value now (the row is not a
\* still-valid Ok/OkPending row) makes the slot an AccessTokenProvider error,
\* the state Error, the timers now, and scheduled_for = now + D with D = 100
\* for Uninitialized/Initializing, 1000 for an expired Ok/OkPending and 5000
\* for Error/ErrorPending.
C6_FailureSetsSlotAndRow ==
    [][\A idx \in RowIdx :
         (/\ FailureStep(idx)
          /\ ~(/\ rows[idx].token_state \in {"Ok", "OkPending"}
               /\ clock < rows[idx].expires_at))
         => LET now  == clock
                row  == rows'[idx]
                prev == rows[idx].token_state
                D    == IF prev \in {"Uninitialized", "Initializing"} THEN 100
                        ELSE IF prev \in {"Ok", "OkPending"} THEN 1000
                        ELSE 5000
            IN /\ tokens'[RowTokenId(idx)].kind = "AccessTokenProvider"
               /\ tokens'[RowTokenId(idx)].val \in ProviderErrors
               /\ row.token_state = "Error"
               /\ row.last_touched = now
               /\ row.expires_at = now
               /\ row.refresh_at = now
               /\ row.warn_at = now
               /\ row.scheduled_for = now + D]_vars

\* C6 witness: the refresh of an expired token has failed; the next attempt
\* is due 1000 ms later.
C6_Witness ==
    /\ last.op = "err"
    /\ last.prev \in {"Ok", "OkPending"}
    /\ tokens[RowTokenId(last.idx)].kind = "AccessTokenProvider"
    /\ rows[last.idx].scheduled_for = clock + 1000

\* The other two delays of C6 are reached as well.
C6_ReachedUninitialized ==
    last.op = "err" /\ last.prev = "Initializing"
        /\ rows[last.idx].scheduled_for = clock + 100

C6_ReachedError ==
    last.op = "err" /\ last.prev = "ErrorPending"
        /\ rows[last.idx].scheduled_for = clock + 5000

\* C7 as claimed: for every row in OkPending or ErrorPending the channel
\* holds at most one command addressed to the row, ForceRefresh included.
C7_AtMostOneCommandForPendingRow ==
    \A idx \in RowIdx :
        rows[idx].token_state \in {"OkPending", "ErrorPending"}
        => Cardinality(CommandsFor(idx)) <= 1

\* C7 with the reader's commands left out of the count (does not hold: a
\* ForceRefresh resets the row while the scheduler's command is still queued).
C7_AtMostOneSchedulerCommandForPendingRow ==
    \A idx \in RowIdx :
        rows[idx].token_state \in {"OkPending", "ErrorPending"}
        => Cardinality(SchedulerCommandsFor(idx)) <= 1

\* C7 as amended: as long as no reader has asked for a refresh, the channel
\* holds at most one command for every row in OkPending or ErrorPending.
C7_AtMostOneCommandWithoutForce ==
    \A idx \in RowIdx :
        (forced = 0 /\ rows[idx].token_state \in {"OkPending", "ErrorPending"})
        => Cardinality(CommandsFor(idx)) <= 1

\* C7 witness: a row is OkPending and its one command waits in the channel.
C7_Witness ==
    /\ forced = 0
    /\ \E idx \in RowIdx :
         /\ rows[idx].token_state = "OkPending"
         /\ Cardinality(CommandsFor(idx)) = 1

\* A command of the scheduler for row idx is still in the channel or is
\* being executed by the updater.
SchedulerCommandOutstanding(idx) ==
    \/ SchedulerCommandsFor(idx) # {}
    \/ /\ RowLockedByUpdater(idx)
       /\ updater.kind \in {"ScheduledRefresh", "RefreshOnError"}

\* C8 as claimed: the scheduler sends no command for a row while a command
\* it sent earlier for the row is not yet consumed and completed, whatever
\* the readers do.
C8_NoEmitWhileOwnCommandOutstanding ==
    [][\A idx \in RowIdx :
         SchedulerEmits(idx) => ~SchedulerCommandOutstanding(idx)]_vars

\* C8 as amended: the scheduler sends no command for a row in a pending
\* state; as long as no reader has asked for a refresh, it therefore sends
\* none while a command it sent earlier for the row is outstanding.
C8_NoEmitForPendingRow ==
    [][\A idx \in RowIdx :
         SchedulerEmits(idx)
         => /\ ~is_refresh_pending(rows[idx].token_state)
            /\ is_refresh_pending(rows'[idx].token_state)
            /\ forced = 0 => ~SchedulerCommandOutstanding(idx)]_vars

\* C8 witness: the scheduler has come to a due row whose command is still
\* outstanding and has gone past it without sending another.
C8_Witness ==
    /\ sched.pc = "round"
    /\ sched.idx = NumRows
    /\ sched.pending
    /\ \E idx \in RowIdx :
         /\ rows[idx].scheduled_for <= clock
         /\ rows[idx].token_state = "OkPending"
         /\ Cardinality(SchedulerCommandsFor(idx)) = 1
         /\ forced = 0

\* C9: a row's state is a pending state exactly when a refresh command for
\* the row is outstanding (in the channel or being executed); stated for the
\* runs in which no reader has asked for a refresh.
C9_PendingIffOutstanding ==
    \A idx \in RowIdx :
        forced = 0
        => (is_refresh_pending(rows[idx].token_state) <=> Outstanding(idx))

\* C9, the direction that holds without the readers' commands: an
\* outstanding command means a pending row.
C9_OutstandingImpliesPending ==
    \A idx \in RowIdx :
        (forced = 0 /\ Outstanding(idx))
        => is_refresh_pending(rows[idx].token_state)

\* C10 as claimed: after a successful refresh refresh_at < warn_at <
\* expires_at.
C10_StrictTimerOrder ==
    \A idx \in RowIdx :
        rows[idx].token_state \in {"Ok", "OkPending"}
        => /\ rows[idx].refresh_at < rows[idx].warn_at
           /\ rows[idx].warn_at < rows[idx].expires_at

\* C10 as amended: after a successful refresh last_touched <= refresh_at <=
\* expires_at and last_touched <= warn_at <= expires_at, and refresh_at <=
\* warn_at when refresh_threshold <= warning_threshold.
C10_WeakTimerOrder ==
    \A idx \in RowIdx :
        rows[idx].token_state \in {"Ok", "OkPending"}
        => /\ rows[idx].last_touched <= rows[idx].refresh_at
           /\ rows[idx].refresh_at <= rows[idx].expires_at
           /\ rows[idx].last_touched <= rows[idx].warn_at
           /\ rows[idx].warn_at <= rows[idx].expires_at
           /\ thresholds[1] <= thresholds[2]
                => rows[idx].refresh_at <= rows[idx].warn_at

\* C10 witness: a refresh with expires_in > 0 has succeeded in a group whose
\* refresh threshold is 1.0: the refresh is due at the expiry, after the
\* warning.
C10_Witness ==
    /\ last.op = "ok"
    /\ last.arg > 0
    /\ rows[last.idx].token_state = "Ok"
    /\ rows[last.idx].refresh_at = rows[last.idx].expires_at
    /\ rows[last.idx].warn_at < rows[last.idx].refresh_at

\* The identifiers a reader may ask for.
ReaderIds == TokenIds \cup {UnknownId}

\* The updater step that writes a refresh outcome to the slot of id.
OutcomeApplied(id) ==
    /\ updater.pc = "calling"
    /\ RowTokenId(updater.idx) = id
    /\ last'.op \in {"ok", "err"}

\* C11: get_access_token(id) answers NoToken exactly for the ids that are not
\* managed; for a managed id it answers NotInitialized from the start
\* until the first refresh outcome (success or failure) is written to the
\* slot, and never again afterwards.
C11_NoTokenAndNotInitialized ==
    [][/\ \A id \in ReaderIds :
            get_access_token(id).kind = "NoToken" <=> id \notin TokenIds
       /\ \A id \in TokenIds :
            /\ get_access_token(id).kind = "NotInitialized"
                 <=> is_uninitialized(rows[TokenIndex(id)].token_state)
            /\ OutcomeApplied(id) => get_access_token(id)'.kind # "NotInitialized"
            /\ get_access_token(id).kind # "NotInitialized"
                 => get_access_token(id)'.kind # "NotInitialized"
            /\ (get_access_token(id).kind = "NotInitialized" /\ ~OutcomeApplied(id))
                 => get_access_token(id)'.kind = "NotInitialized"
            /\ (get_access_token(id).kind = "NotInitialized" /\ updater.pc = "calling"
                  /\ RowTokenId(updater.idx) = id /\ updater'.pc = "recv")
                 => OutcomeApplied(id)]_vars

\* C11 witness: the first refresh of a managed token has failed, the reader
\* gets the provider's error for it and NoToken for an unmanaged id.
C11_Witness ==
    /\ last.op = "err"
    /\ last.prev \in {"Uninitialized", "Initializing"}
    /\ get_access_token(RowTokenId(last.idx)).kind = "AccessTokenProvider"
    /\ get_access_token(UnknownId).kind = "NoToken"

\* C12: rows and slots are paired one-to-one: the index stored beside the
\* slot of an id addresses the row created for that id, every refresh outcome
\* for a row is written to the slot of the row's token id and to no other,
\* and the token a reader gets for an id was issued for that id.
C12_RowsAndSlotsPaired ==
    [][/\ Cardinality(TokenIds) = NumRows
       /\ \A id \in TokenIds : RowTokenId(TokenIndex(id)) = id
       /\ \A idx \in RowIdx : TokenIndex(RowTokenId(idx)) = idx
       /\ \A idx \in RowIdx :
            (SuccessStep(idx) \/ FailureStep(idx))
            => /\ \A id \in TokenIds \ {RowTokenId(idx)} : tokens'[id] = tokens[id]
               /\ last'.op = "ok"
                    => tokens'[RowTokenId(idx)] = SlotOk(AccessTokenFor(idx, calls))
               /\ last'.op = "err"
                    => tokens'[RowTokenId(idx)].kind = "AccessTokenProvider"
       /\ \A id \in TokenIds :
            get_access_token(id).kind = "Ok"
            => get_access_token(id).val.issued_for = id]_vars

\* C12 witness: of two managed tokens the second has been refreshed on a
\* reader's request and the first by the scheduler; both slots hold tokens.
C12_Witness ==
    /\ NumRows = 2
    /\ forced > 0
    /\ last.op = "ok"
    /\ last.idx = 1
    /\ get_access_token(RowTokenId(0)).kind = "Ok"
    /\ get_access_token(RowTokenId(1)).kind = "Ok"
    /\ get_access_token(RowTokenId(0)).val # get_access_token(RowTokenId(1)).val

\* C13: while the updater is inside a provider call the scheduler can take
\* the next step of its round: no step of a round waits for the call to end.
C13_SchedulerNeverWaitsForCall ==
    (/\ updater.pc = "calling"
     /\ sched.pc = "round"
     /\ sched.idx < NumRows)
    => ENABLED SchedulerRow

\* The scheduler stands at a row whose lock it cannot get.
SchedulerWaitsForRow ==
    /\ sched.pc = "round"
    /\ sched.idx < NumRows
    /\ ~ENABLED SchedulerRow

\* The updater has the outcome of its call and cannot get the slot's lock.
UpdaterWaitsForSlot ==
    /\ updater.pc = "calling"
    /\ SlotLockedByReader(updater.slot)

\* C14: no thread takes a row lock while it holds a slot lock (a reader,
\* the only thread that holds a slot lock between steps, takes no row lock),
\* and the locks deadlock nobody: a reader holding a slot lock can always
\* release it, the updater waits for a slot only while a reader holds it, and
\* the scheduler waits for a row only while the updater holds it.
C14_LockOrderAndNoDeadlock ==
    /\ \A id \in reader.locked : get_access_token_row_locks(id) = {}
    /\ reader.locked # {} => ENABLED ReaderUnlock
    /\ updater.pc = "calling"
         => (ENABLED UpdaterSuccess \/ UpdaterWaitsForSlot)
    /\ UpdaterWaitsForSlot => ENABLED ReaderUnlock
    /\ SchedulerWaitsForRow => RowLockedByUpdater(sched.idx)

\* C14 witness: the scheduler waits for the row the updater holds, and the
\* updater for the slot a reader holds.
C14_Witness ==
    /\ SchedulerWaitsForRow
    /\ UpdaterWaitsForSlot
    /\ ENABLED ReaderUnlock

StartReturns ==
    /\ starter.pc # "done"
    /\ starter'.pc = "done"

\* C16: when a token id occurs more than once in the groups, start (and
\* start_and_wait) returns an initialization error and spawns no worker
\* thread; no row and no slot is ever created from such groups.
C16_DuplicateIdsRejected ==
    [][Cardinality(TokenIds) < NumRows
       => /\ StartReturns => starter'.result = "InitializationError"
          /\ sched'.pc = "unspawned"
          /\ updater'.pc = "unspawned"
          /\ rows' = <<>>
          /\ tokens' = <<>>
          /\ handles' = 0]_vars

\* C16 witness: start has returned the error for groups in which an id
\* occurs twice, not next to each other, and no worker thread runs.
C16_Witness ==
    /\ Cardinality(TokenIds) < NumRows
    /\ NumRows = 3
    /\ starter.op = "start"
    /\ starter.pc = "done"
    /\ starter.result = "InitializationError"
    /\ sched.pc = "unspawned"
    /\ updater.pc = "unspawned"

\* C17: start_and_wait returns a handle only when no slot holds
\* NotInitialized any more, and returns the initialization error of the
\* timeout only when some slot still holds NotInitialized.
C17_WaitReturnsWhenInitialized ==
    [][(starter.pc = "waiting" /\ StartReturns)
       => /\ starter'.result = "Ok"
               => \A id \in TokenIds : get_access_token(id)'.kind # "NotInitialized"
          /\ starter'.result = "InitializationError"
               => \E id \in TokenIds : get_access_token(id)'.kind = "NotInitialized"]_vars

\* A call of refresh() is made in this step.
RefreshStep ==
    <<forced, reader.refresh, reader.sent>>' # <<forced, reader.refresh, reader.sent>>

\* C18: refresh(id) enqueues exactly one ForceRefresh(id, now) behind the
\* commands already queued and returns without waiting for the updater (it
\* is possible while the updater is inside a provider call and touches no
\* row, no slot and no worker); when the channel is closed it enqueues
\* nothing and still returns normally.
C18_RefreshEnqueuesOneAndReturns ==
    [][RefreshStep
       => /\ reader'.refresh = "returned"
          /\ IF SendFails
             THEN channel' = channel
             ELSE /\ Len(channel') = Len(channel) + 1
                  /\ SubSeq(channel', 1, Len(channel)) = channel
                  /\ LET cmd == channel'[Len(channel')]
                     IN /\ cmd.kind = "ForceRefresh"
                        /\ cmd.ts = clock
                        /\ cmd.target \in ReaderIds
          /\ UNCHANGED <<rows, tokens, updater, sched, calls, clock>>]_vars

\* C18 witness: a refresh() has been called after the updater thread had
\* ended (the channel is closed): nothing was sent and the call returned.
C18_Witness ==
    /\ SendFails
    /\ reader.refresh = "returned"
    /\ ~reader.sent
    /\ forced > 0

\* C18, refresh() is not held up by a running refresh: a command is enqueued
\* while the updater is inside a provider call.
C18_ReachedDuringCall ==
    /\ updater.pc = "calling"
    /\ updater.kind # "ForceRefresh"
    /\ CommandsFor(updater.idx) # {}
    /\ reader.sent

\* The errors get_from_remote retries.
RetriableErrors == {"Connection", "Io", "Server", "Other"}

\* C19: with a fallback endpoint configured, a Client error of the primary
\* endpoint ends the call with that error and the fallback is never called;
\* a retriable error of the primary (Connection, Io, Server, Other) has the
\* fallback called; get_from_remote is run against the fallback at most once
\* in a call (with its own retries, as against the primary).
C19_FallbackOnRetriableNotOnClient ==
    intro.fallback
    => /\ intro.fallback_calls <= 1
       /\ intro.primary = "Client"
            => /\ intro.fallback_calls = 0
               /\ intro.pc = "done"
               /\ intro.result = "Client"
       /\ intro.primary \in RetriableErrors
            => /\ intro.fallback_calls = 1
               /\ intro.pc \in {"fallback", "done"}
       /\ intro.pc = "fallback" => intro.fallback_calls = 1

\* C19 witness: the primary gave up on a Server error after retries, the
\* fallback was asked, retried as well, and answered.
C19_Witness ==
    /\ intro.fallback
    /\ intro.pc = "done"
    /\ intro.primary = "Server"
    /\ intro.attempts > 1
    /\ intro.fallback_calls = 1
    /\ intro.fallback_attempts > 1
    /\ intro.result = "Ok"

\* C19, the other case: a Client error of the primary has ended the call.
C19_ReachedClient ==
    /\ intro.fallback
    /\ intro.pc = "done"
    /\ intro.primary = "Client"
    /\ intro.result = "Client"

\* C20: when the primary endpoint answers 401 the call returns
\* NotAuthenticated and the fallback endpoint is not called, with or without
\* a fallback configured.
C20_NotAuthenticatedNeverFallsBack ==
    intro.primary = "NotAuthenticated"
    => /\ intro.fallback_calls = 0
       /\ intro.pc = "done"
       /\ intro.result = "NotAuthenticated"

\* C21: introspect_with_retry called with budget = 0 ends with an error of
\* kind BudgetExceeded and sends no HTTP request.
C21_ZeroBudgetIsBudgetExceeded ==
    (budgeted.budget = 0 /\ budgeted.pc = "done")
    => /\ budgeted.result = "BudgetExceeded"
       /\ budgeted.requests = 0

\* The errors that end the retry loop at once.
TerminalErrors == {"InvalidResponseContent", "UrlError", "NotAuthenticated", "Client"}

\* The action is run again in this step (after the delay).
RetryStep ==
    /\ budgeted.pc = "condition"
    /\ budgeted'.pc = "action"

\* An HTTP request is sent in this step.
RequestStep == budgeted'.requests > budgeted.requests

\* The retry loop: a request is repeated only while now <= deadline and the
\* last error is one of Connection, Io, Server, Other; a terminal error ends
\* the call with that error; no request is started after the deadline.
RetryLoopContract ==
    /\ RetryStep
         => /\ budgeted.now <= budgeted.deadline
            /\ budgeted.err \in RetriableErrors
    /\ (budgeted.pc = "condition" /\ budgeted.err \in TerminalErrors)
         => /\ budgeted'.pc = "done"
            /\ budgeted'.result = budgeted.err
            /\ budgeted'.requests = budgeted.requests
    /\ RequestStep
         => /\ budgeted.now <= budgeted.deadline
            /\ budgeted'.requests = budgeted.requests + 1

\* C22 as claimed: the retry loop contract, and a call whose first run ends
\* with a terminal error (InvalidResponseContent, UrlError, NotAuthenticated,
\* Client) has sent exactly one HTTP request.
C22_TerminalErrorAfterExactlyOneRequest ==
    [][/\ RetryLoopContract
       /\ (budgeted'.pc = "done" /\ budgeted'.attempts = 1
             /\ budgeted'.result \in TerminalErrors)
            => budgeted'.requests = 1]_vars

\* C22 as amended: the retry loop contract, and a call whose first run ends
\* with InvalidResponseContent, NotAuthenticated or Client has sent exactly
\* one HTTP request, while one ending with UrlError has sent none (the URL
\* is refused before a request is made).
C22_RetryOnlyRetriableWithinDeadline ==
    [][/\ RetryLoopContract
       /\ (budgeted'.pc = "done" /\ budgeted'.attempts = 1
             /\ budgeted'.result \in TerminalErrors)
            => budgeted'.requests = IF budgeted'.result = "UrlError" THEN 0 ELSE 1]_vars

\* C22 witness: after a retried error a client error has ended the call
\* before the deadline, without another request.
C22_Witness ==
    /\ budgeted.pc = "done"
    /\ budgeted.result = "Client"
    /\ budgeted.attempts = 2
    /\ budgeted.requests = 2
    /\ budgeted.now <= budgeted.deadline

\* C22, the case of the amendment: the call has ended with UrlError and no
\* request was sent.
C22_ReachedUrlError ==
    /\ budgeted.pc = "done"
    /\ budgeted.result = "UrlError"
    /\ budgeted.attempts = 1
    /\ budgeted.requests = 0

\* C23: a budgeted call that has ended after its deadline without a
\* successful response has ended with BudgetExceeded.
C23_DeadlineReachedIsBudgetExceeded ==
    (/\ budgeted.pc = "done"
     /\ budgeted.budget > 0
     /\ budgeted.result # "Ok"
     /\ budgeted.now > budgeted.deadline)
    => budgeted.result = "BudgetExceeded"

\* C24: with a fallback endpoint configured, a call of the asynchronous
\* client whose primary endpoint failed with a server error has queried the
\* fallback endpoint.
C24_AsyncFallsBackOnServerError ==
    (/\ budgeted.fallback
     /\ budgeted.pc = "done"
     /\ budgeted.err = "Server")
    => budgeted.fallback_requests > 0

\* One call of the provider is made in this step.
ProviderCallStep ==
    /\ service.pc = "calling"
    /\ service'.attempts = service.attempts + 1

\* C25: within one refresh the provider is called once when the call fails
\* with BadAuthorizationRequest, Parse or Client (the refresh ends with that
\* error), the call is repeated only after Server, Connection, Credentials
\* or Other, until one succeeds or the backoff is exhausted; the loop ends
\* after finitely many calls and reports the error of the last call.
C25_RetryTransientProviderErrors ==
    [][ProviderCallStep
       => LET outcome == IF service'.result = "Ok" THEN "Ok" ELSE service'.err
          IN /\ outcome \in AccessTokenProviderErrors \cup {"Ok"}
             /\ outcome = "Ok" => service'.pc = "done"
             /\ outcome \in {"BadAuthorizationRequest", "Parse", "Client"}
                  => /\ service'.pc = "done"
                     /\ service'.result = outcome
                     /\ ~service'.exhausted
             /\ service'.pc = "calling"
                  => outcome \in {"Server", "Connection", "Credentials", "Other"}
             /\ outcome \in {"Server", "Connection", "Credentials", "Other"}
                  => \/ service'.pc = "calling"
                     \/ /\ service'.pc = "done"
                        /\ service'.exhausted
                        /\ service'.result = outcome
             /\ service'.attempts <= MaxAttempts
             /\ service'.pc \in {"calling", "done"}]_vars

\* C25 witness: the provider was called again after transient errors until
\* the backoff was exhausted; the refresh ended with the last error.
C25_Witness ==
    /\ service.pc = "done"
    /\ service.attempts > 1
    /\ service.exhausted
    /\ service.result = "Credentials"

\* C25, the other cases: a permanent error has ended the refresh after one
\* call; a call has succeeded after a retried error.
C25_ReachedPermanent ==
    /\ service.pc = "done"
    /\ service.attempts = 1
    /\ service.result = "Parse"

C25_ReachedSuccessAfterRetry ==
    /\ service.pc = "done"
    /\ service.attempts > 1
    /\ service.result = "Ok"

\* C26: the password-grant provider classifies a readable answer by its
\* status: 200 gives the parsed response, 400 BadAuthorizationRequest, any
\* other 4xx Client, 5xx Server; and after a 4xx answer other than 400 the
\* refresh has ended with Client: the call is not repeated.
C26_StatusClassification ==
    (service.via = "response" /\ service.body = "json")
    => /\ service.status = 200 => service.result = "Ok"
       /\ service.status = 400
            => service.pc = "done" /\ service.result = "BadAuthorizationRequest"
       /\ (service.status # 400 /\ is_client_error(service.status))
            => service.pc = "done" /\ service.result = "Client"
       /\ is_server_error(service.status) => service.err = "Server"

\* C27: what Display and Debug write for an AccessToken does not depend on
\* the secret: two tokens, whatever their secrets, are written as the same
\* text, by Display and by Debug.
C27_FormattingIndependentOfSecret ==
    /\ formatted.with # "none" => formatted.left_out = formatted.right_out
    /\ formatted.with = "Display"
         => formatted.left_out = <<"<secret-access-token>">>
    /\ formatted.with = "Debug"
         => formatted.left_out = <<"AccessToken(", "<secret>", ")">>

\* C27 witness: two tokens with different secrets have been written with
\* Debug, as the same text.
C27_Witness ==
    /\ formatted.with = "Debug"
    /\ formatted.left # formatted.right
    /\ formatted.left[1] # <<>>
    /\ formatted.left_out = formatted.right_out

\* C27, the same for Display.
C27_ReachedDisplay ==
    /\ formatted.with = "Display"
    /\ formatted.left # formatted.right
    /\ formatted.left_out = formatted.right_out

\* The value a threshold of the builder should hold: the one last asked
\* for, the default when none was.
Expected(asked, default) == IF asked = <<>> THEN default ELSE asked[1]

\* C28: with_warning_threshold(w) sets the warning threshold to w and leaves
\* the refresh threshold, with_refresh_threshold(r) sets the refresh
\* threshold to r and leaves the warning threshold: the builder, and the
\* group built from it, hold for each threshold the value last set (the
\* default 0.75 / 0.85 when none was set).
C28_SettersSetTheirOwnThreshold ==
    LET r == Expected(builder.asked_refresh, 75)
        w == Expected(builder.asked_warning, 85)
    IN /\ builder.refresh_threshold = r
       /\ builder.warning_threshold = w
       /\ (builder.pc = "built" /\ builder.group # <<"InitializationError">>)
            => builder.group = <<[refresh_threshold |-> r, warning_threshold |-> w]>>

\* The table of a scheduling round for row idx at the clock value now: the
\* command emitted (none, or one carrying idx and now) and the next state.
TableRow(idx) ==
    LET state == rows[idx].token_state
        emits(kind) ==
            channel' = Append(channel, [kind |-> kind, target |-> idx, ts |-> clock])
    IN IF rows[idx].scheduled_for <= clock
       THEN CASE state = "Uninitialized" ->
                   emits("ScheduledRefresh") /\ rows'[idx].token_state = "Initializing"
              [] state = "Ok" ->
                   emits("ScheduledRefresh") /\ rows'[idx].token_state = "OkPending"
              [] state = "Error" ->
                   emits("RefreshOnError") /\ rows'[idx].token_state = "ErrorPending"
              [] OTHER ->
                   channel' = channel /\ rows'[idx].token_state = state
       ELSE channel' = channel /\ rows'[idx].token_state = state

\* C29: in one scheduling round at clock value now every row is handled by
\* the table: a due row that is Uninitialized, Ok or Error has
\* ScheduledRefresh(idx, now), ScheduledRefresh(idx, now) or
\* RefreshOnError(idx, now) emitted and becomes Initializing, OkPending or
\* ErrorPending; a due row in a pending state and a row that is not due
\* have nothing emitted and keep their state.
C29_SchedulingTable ==
    [][\A idx \in RowIdx : SchedulerVisits(idx) => TableRow(idx)]_vars

\* C29 restricted to the rounds in which the updater thread is alive (the
\* channel has its receiver): there the table is what the scheduler does.
C29_SchedulingTableWhileChannelOpen ==
    [][\A idx \in RowIdx : (SchedulerVisits(idx) /\ ~SendFails) => TableRow(idx)]_vars

\* C29: the scheduler has come to a due row after the updater thread had
\* ended: the round was broken off, nothing was sent, the row is as before.
C29_ReachedBrokenRound ==
    /\ SendFails
    /\ sched.pc = "round"
    /\ sched.idx = NumRows
    /\ \E idx \in RowIdx :
         /\ rows[idx].scheduled_for <= clock
         /\ ~is_refresh_pending(rows[idx].token_state)

C31_UninitializedRowTakesEveryCommand ==
    [][\A idx \in RowIdx :
         /\ (/\ ReceiveStep(idx)
              /\ is_uninitialized(rows[idx].token_state))
             => /\ updater'.pc = "calling"
                /\ updater'.idx = idx
                /\ last'.op = "call"
         /\ (/\ updater.pc = "calling"
              /\ updater.idx = idx
              /\ is_uninitialized(rows[idx].token_state)
              /\ updater'.pc = "recv")
             => /\ last'.op \in {"ok", "err"}
                /\ calls' = calls + 1
                /\ rows'[idx].last_touched = clock
                /\ rows'[idx].token_state = (IF last'.op = "ok" THEN "Ok" ELSE "Error")
                /\ tokens'[RowTokenId(idx)].kind =
                       (IF last'.op = "ok" THEN "Ok" ELSE "AccessTokenProvider")]_vars

\* C31 witness: the provider is being called for a row that was never
\* initialized, on a command older than the row's last_touched.
C31_Witness ==
    /\ updater.pc = "calling"
    /\ is_uninitialized(rows[updater.idx].token_state)
    /\ updater.ts < rows[updater.idx].last_touched

\* The same for a command whose timestamp equals last_touched, and an
\* outcome applied to a row that was Initializing.
C31_ReachedEqualTimestamp ==
    /\ updater.pc = "calling"
    /\ is_uninitialized(rows[updater.idx].token_state)
    /\ updater.ts = rows[updater.idx].last_touched

C31_ReachedApplied ==
    /\ last.op \in {"ok", "err"}
    /\ last.prev = "Initializing"

C32_ReachedSuccess ==
    /\ last.op = "ok"
    /\ rows[last.idx].last_touched > 0

C32_ReachedFailure ==
    /\ last.op = "err"
    /\ rows[last.idx].last_touched > 0

\* A reader's refresh(id) that queues ForceRefresh(id, now).
ForceRefreshQueued(id) ==
    /\ Refresh
    /\ channel' = Append(channel, [kind |-> "ForceRefresh", target |-> id, ts |-> clock])

\* C33: a ForceRefresh for a row whose refresh is outstanding (a command for
\* it is queued, or the updater is inside the provider call for it) is
\* accepted: while the updater runs, a reader's refresh can queue it; and when
\* the updater receives a ForceRefresh, it executes it unless the command is
\* older than last_touched of an initialized row, whatever the row's state,
\* pending or not.
C33_ForceRefreshWhilePendingIsAccepted ==
    /\ [](\A idx \in RowIdx :
            (/\ Outstanding(idx)
             /\ ~SendFails
             /\ handles > 0
             /\ forced < MaxForce)
            => ENABLED ForceRefreshQueued(RowTokenId(idx)))
    /\ [][\A idx \in RowIdx :
            (/\ ReceiveStep(idx)
             /\ Head(channel).kind = "ForceRefresh")
            => IF \/ rows[idx].last_touched <= Head(channel).ts
                  \/ rows[idx].token_state \in {"Uninitialized", "Initializing"}
               THEN /\ updater'.pc = "calling"
                    /\ updater'.idx = idx
                    /\ updater'.kind = "ForceRefresh"
               ELSE Skipped]_vars

\* C33 witness: a ForceRefresh is executed for a row in a pending state.
C33_Witness ==
    /\ updater.pc = "calling"
    /\ updater.kind = "ForceRefresh"
    /\ is_refresh_pending(rows[updater.idx].token_state)

\* A ForceRefresh is queued behind a command of the scheduler for the same
\* row; one is queued for the row the updater is calling the provider for;
\* and one issued during a call is rejected by the gate, the call having
\* ended at a later clock value.
C33_ReachedQueuedBehind ==
    \E k \in 1 .. Len(channel), j \in 1 .. Len(channel) :
        /\ j < k
        /\ channel[k].kind = "ForceRefresh"
        /\ channel[j].kind # "ForceRefresh"
        /\ CommandRow(channel[k]) = channel[j].target

C33_ReachedQueuedDuringCall ==
    /\ updater.pc = "calling"
    /\ updater.kind # "ForceRefresh"
    /\ \E k \in CommandsFor(updater.idx) : channel[k].kind = "ForceRefresh"

C33_ReachedRejectedByGate ==
    /\ last.op = "skip"
    /\ forced > 0
    /\ channel = <<>>
    /\ sched.pc = "sleep"
    /\ calls = 1

\* The scheduler ends a round and goes to sleep.
RoundEnds ==
    /\ sched.pc = "round"
    /\ sched'.pc = "sleep"

\* C34: the sleep chosen at the end of a round never extends past the
\* earliest scheduled_for the round has seen among the rows that were not
\* yet due (so the scheduler is awake when the next refresh of a row is due,
\* refresh_threshold * expires_in after its success), also when another row
\* has a refresh outstanding.
C34_SleepNeverPastEarliestScheduledFor ==
    [][(/\ RoundEnds
        /\ sched.next_at # U64Max
        /\ sched.next_at >= clock)
       => sched'.wake_at <= sched.next_at]_vars

\* The same holds of the rounds in which no refresh is pending.
C34_SleepNeverPastWhenNothingPending ==
    [][(/\ RoundEnds
        /\ ~sched.pending
        /\ sched.next_at # U64Max
        /\ sched.next_at >= clock)
       => sched'.wake_at <= sched.next_at]_vars

\* The scheduler sleeps past the scheduled_for of a row that is Ok, was
\* refreshed at an earlier reading of the clock and is not yet due, while the
\* other row waits for its first refresh.
C34_ReachedSleepPastScheduledFor ==
    \E idx \in RowIdx, other \in RowIdx :
        /\ sched.pc = "sleep"
        /\ rows[idx].token_state = "Ok"
        /\ rows[idx].last_touched < clock
        /\ clock < rows[idx].scheduled_for
        /\ rows[idx].scheduled_for < sched.wake_at
        /\ rows[other].token_state = "Initializing"

\* The minimum notification interval has elapsed since the last warning for
\* the row, or none was sent yet.
IntervalElapsed(row, now) ==
    \/ row.last_notification_at = <<>>
    \/ now - row.last_notification_at[1] >= min_notification_interval_ms

\* A warning is logged for row idx in this step, none is.
Warned(idx) ==
    /\ rows'[idx].last_notification_at = <<clock>>
    /\ rows'[idx].last_notification_at # rows[idx].last_notification_at

NotWarned(idx) ==
    rows'[idx].last_notification_at = rows[idx].last_notification_at

\* Two warnings for a row are at least the minimum interval apart.
WarningsApart ==
    \A idx \in RowIdx :
        (/\ rows[idx].last_notification_at # <<>>
         /\ rows'[idx].last_notification_at # rows[idx].last_notification_at)
        => /\ rows'[idx].last_notification_at # <<>>
           /\ rows'[idx].last_notification_at[1] - rows[idx].last_notification_at[1]
                  >= min_notification_interval_ms

\* The round breaks off at row idx: the row is due and the send fails.
RoundBreaksAt(idx) ==
    /\ rows[idx].scheduled_for <= clock
    /\ rows[idx].token_state \in {"Uninitialized", "Ok", "Error"}
    /\ SendFails

\* C35 as claimed: when the scheduler comes to a row for which the minimum
\* interval has elapsed (or that was never warned about), it logs one warning
\* and sets last_notification_at = now if the row is in an error state or
\* expires_at <= now or warn_at <= now, and none otherwise; two warnings for
\* a row are at least the minimum interval apart.
C35_WarningWheneverExpiredOrError ==
    [][/\ \A idx \in RowIdx :
            SchedulerVisits(idx)
            => IF /\ IntervalElapsed(rows[idx], clock)
                  /\ \/ rows[idx].token_state \in {"Error", "ErrorPending"}
                     \/ rows[idx].expires_at <= clock
                     \/ rows[idx].warn_at <= clock
               THEN Warned(idx)
               ELSE NotWarned(idx)
       /\ WarningsApart]_vars

\* C35 as amended: the warning is logged for a row that is in an error state,
\* or that holds a token (Ok, OkPending) with expires_at <= now or
\* warn_at <= now; a row that was never initialized is not warned about,
\* though its expires_at is not in the future; and no warning is logged by a
\* round that breaks off at the row because the command cannot be sent.
\* Warnings for a row are at least the minimum interval apart.
C35_WarningForErrorOrExpiringToken ==
    [][/\ \A idx \in RowIdx :
            SchedulerVisits(idx)
            => IF /\ ~RoundBreaksAt(idx)
                  /\ IntervalElapsed(rows[idx], clock)
                  /\ \/ rows[idx].token_state \in {"Error", "ErrorPending"}
                     \/ /\ rows[idx].token_state \in {"Ok", "OkPending"}
                        /\ (rows[idx].expires_at <= clock \/ rows[idx].warn_at <= clock)
               THEN Warned(idx)
               ELSE NotWarned(idx)
       /\ WarningsApart]_vars

\* C35 witness: the scheduler has just logged a warning for a row, a full
\* interval or more after the manager was started.
C35_Witness ==
    \E idx \in RowIdx :
        /\ sched.pc = "round"
        /\ sched.idx = idx + 1
        /\ rows[idx].last_notification_at = <<clock>>
        /\ clock >= min_notification_interval_ms

\* A row that was never initialized has been visited, no warning given; a
\* warning is withheld from a row in an error state, the last being less
\* than the interval ago.
C35_ReachedUninitializedUnwarned ==
    \E idx \in RowIdx :
        /\ sched.pc = "round"
        /\ sched.idx = idx + 1
        /\ rows[idx].token_state = "Initializing"
        /\ rows[idx].expires_at <= clock
        /\ rows[idx].last_notification_at = <<>>

C35_ReachedWithheld ==
    \E idx \in RowIdx :
        /\ sched.pc = "round"
        /\ sched.idx = idx + 1
        /\ rows[idx].token_state \in {"Error", "ErrorPending"}
        /\ rows[idx].last_notification_at # <<>>
        /\ rows[idx].last_notification_at[1] < clock

\* No worker holds the lock of row idx: the updater holds it from the gate of
\* refresh_token to the end of the update, the scheduler only within its
\* step over the row.
RowUnlocked(idx) == ~RowLockedByUpdater(idx)

\* C36: whenever no worker holds the lock of a row, the row's state and the
\* content of its slot agree: the slot holds NotInitialized exactly when the
\* row is Uninitialized or Initializing, a token exactly when the row is Ok
\* or OkPending, and the provider's error exactly when the row is Error or
\* ErrorPending.
C36_RowStateAndSlotAgree ==
    \A idx \in RowIdx :
        RowUnlocked(idx)
        => LET slot  == tokens[RowTokenId(idx)]
               state == rows[idx].token_state
           IN /\ slot.kind \in {"NotInitialized", "Ok", "AccessTokenProvider"}
              /\ slot.kind = "NotInitialized" <=> state \in {"Uninitialized", "Initializing"}
              /\ slot.kind = "Ok" <=> state \in {"Ok", "OkPending"}
              /\ slot.kind = "AccessTokenProvider" <=> state \in {"Error", "ErrorPending"}

\* C36 witness: a failed refresh has put the provider's error into the slot
\* of a row that held a token, and the lock of the row is free again.
C36_Witness ==
    /\ last.op = "err"
    /\ last.prev \in {"Ok", "OkPending"}
    /\ RowUnlocked(last.idx)
    /\ tokens[RowTokenId(last.idx)].kind = "AccessTokenProvider"
    /\ rows[last.idx].token_state = "Error"

\* A slot holding a token while the row waits for its next refresh, and a
\* slot holding an error while the row waits for the refresh on error.
C36_ReachedOkPending ==
    \E idx \in RowIdx :
        /\ RowUnlocked(idx)
        /\ rows[idx].token_state = "OkPending"
        /\ tokens[RowTokenId(idx)].kind = "Ok"

C36_ReachedErrorPending ==
    \E idx \in RowIdx :
        /\ RowUnlocked(idx)
        /\ rows[idx].token_state = "ErrorPending"
        /\ tokens[RowTokenId(idx)].kind = "AccessTokenProvider"

\* C37: a ForceRefresh for an id that no managed token carries changes no
\* row and no slot, and the updater goes on to receive the commands that
\* follow it.
C37_UnknownIdIsIgnored ==
    [][(/\ ReceiveStep(-1)
        /\ Head(channel).kind = "ForceRefresh"
        /\ Head(channel).target \notin TokenIds)
       => /\ rows' = rows
          /\ tokens' = tokens
          /\ updater'.pc = "recv"]_vars

\* The updater thread has ended on the command for the unknown id while a
\* row waits for the refresh the scheduler has sent for it.
C37_ReachedStuckRow ==
    /\ updater.pc = "panicked"
    /\ \E idx \in RowIdx :
         /\ is_refresh_pending(rows[idx].token_state)
         /\ SchedulerCommandsFor(idx) # {}

\* The updater step that ends the handling of a command for row idx: the
\* provider call ends in success or failure, or the command is skipped.
OutcomeStep(idx) ==
    \/ SuccessStep(idx)
    \/ FailureStep(idx)
    \/ ReceiveStep(idx) /\ last'.op = "skip"

\* C38: the outcome of a refresh of one token (success, failure applied or
\* not, skip) changes at most that token's row and slot: the rows and slots
\* of all other tokens, tokens of the same group among them, stay as they
\* were.
C38_OutcomeTouchesOwnRowAndSlotOnly ==
    [][\A idx \in RowIdx :
         OutcomeStep(idx)
         => \A other \in RowIdx \ {idx} :
                /\ rows'[other] = rows[other]
                /\ tokens'[RowTokenId(other)] = tokens[RowTokenId(other)]]_vars

\* C38 witness: both tokens have been refreshed and the last outcome, a
\* failure written to one token's row and slot, has left the other token's
\* slot holding its token.
C38_Witness ==
    \E other \in RowIdx :
        /\ last.op = "err"
        /\ other # last.idx
        /\ tokens[RowTokenId(last.idx)].kind = "AccessTokenProvider"
        /\ tokens[RowTokenId(other)].kind = "Ok"
        /\ rows[other].token_state = "Ok"

\* A command for one token has been skipped, and one has succeeded, while
\* the other token's slot holds an error.
C38_ReachedSkip ==
    \E other \in RowIdx :
        /\ last.op = "skip"
        /\ other # last.idx
        /\ tokens[RowTokenId(other)].kind = "AccessTokenProvider"

C38_ReachedSuccess ==
    \E other \in RowIdx :
        /\ last.op = "ok"
        /\ other # last.idx
        /\ tokens[RowTokenId(other)].kind = "AccessTokenProvider"

\* C39: for every expires_in the parser accepts, the milliseconds and the
\* timers are computed without overflow: the update does not panic, and
\* afterwards expires_at = now + 1000 * expires_in, not below last_touched,
\* with refresh_at and warn_at between the two.
C39_TimersNeverOverflow ==
    /\ response.pc # "panicked"
    /\ response.pc = "updated"
         => LET row  == response.row[1]
                secs == parse_expires_in(response.number)[1]
            IN /\ row.expires_at = response.now + 1000 * secs
               /\ row.expires_at >= row.last_touched
               /\ row.refresh_at >= row.last_touched
               /\ row.refresh_at <= row.expires_at
               /\ row.warn_at >= row.last_touched
               /\ row.warn_at <= row.expires_at

\* The timers are right as long as the milliseconds of expires_in, added to
\* the clock value, fit the word.
C39_TimersRightWhileInRange ==
    (/\ response.pc \in {"parsed", "updated", "panicked"}
     /\ response.now + 1000 * response.number <= WordMax)
    => /\ response.pc # "panicked"
       /\ response.pc = "updated"
            => LET row == response.row[1]
               IN /\ row.expires_at = response.now + 1000 * response.number
                  /\ row.last_touched <= row.refresh_at
                  /\ row.refresh_at <= row.expires_at
                  /\ row.last_touched <= row.warn_at
                  /\ row.warn_at <= row.expires_at

\* A build without overflow checks has set expires_at below last_touched.
C39_ReachedExpiresBeforeTouched ==
    /\ response.pc = "updated"
    /\ response.row[1].expires_at < response.row[1].last_touched

====
